---- MODULE Spec2Model ----
(***************************************************************************)
(* A model of the CS2 skin search engine (SimpleSkinSearchEngine in        *)
(* search_utils_simplified.py): the catalog and its indices, the price     *)
(* intent parser, the query normaliser, the match strategy chain, the      *)
(* price-range / extremum searches and the result formatter.               *)
(*                                                                         *)
(* Strings are TLA+ strings handled character by character (Len, SubSeq,   *)
(* \o).  The trademark sign of "StatTrak(TM)" is written "~".  Prices are  *)
(* integers in thousandths of a dollar.  A value that a Python function    *)
(* binds to a local variable and reads several times is passed on as the   *)
(* argument of a helper operator, which evaluates it once.                 *)
(***************************************************************************)
EXTENDS Integers, Sequences, FiniteSets, TLC

(***************************************************************************)
(* Python string primitives                                                *)
(***************************************************************************)
TM == "~"
UpperAlpha == "ABCDEFGHIJKLMNOPQRSTUVWXYZ"
LowerAlpha == "abcdefghijklmnopqrstuvwxyz"
DigitChars == "0123456789"
Ch(s, i) == SubSeq(s, i, i)

\* the least element of a non-empty set of integers
MinOf(S) == CHOOSE x \in S : \A y \in S : x <= y
\* the greatest element of a non-empty set of integers
MaxOf(S) == 0 - MinOf({0 - x : x \in S})
\* the least element of S, d when S is empty
FirstOr(S, d) == IF S = {} THEN d ELSE MinOf(S)

\* s[i-1:].startswith(w)
IsAt(s, i, w) == i + Len(w) - 1 <= Len(s) /\ SubSeq(s, i, i + Len(w) - 1) = w

\* str.find(sub, i-1) + 1: the first index >= i at which sub occurs in s, 0 if none
Find(s, sub, i) == FirstOr({j \in i..(Len(s) - Len(sub) + 1) : IsAt(s, j, sub)}, 0)

\* sub in s
Contains(s, sub) == \E j \in 1..(Len(s) - Len(sub) + 1) : IsAt(s, j, sub)

\* s.startswith(p)
StartsWith(s, p) == IsAt(s, 1, p)

RECURSIVE ReplaceFrom(_, _, _, _)
\* s[i-1:].replace(old, new), the next occurrence of old being at j (0: none)
ReplaceFrom(s, old, new, i) ==
  LET At(j) == IF j = 0 THEN SubSeq(s, i, Len(s))
               ELSE SubSeq(s, i, j - 1) \o new \o ReplaceFrom(s, old, new, j + Len(old))
  IN At(Find(s, old, i))

\* s.replace(old, new), old non-empty: non-overlapping occurrences, left to right
Replace(s, old, new) == ReplaceFrom(s, old, new, 1)

\* s.strip(): s without what precedes and follows its non-blank positions ink
Strip(s) ==
  LET Within(ink) == IF ink = {} THEN "" ELSE SubSeq(s, MinOf(ink), MaxOf(ink))
  IN Within({i \in 1..Len(s) : Ch(s, i) # " "})

\* the character c, which alphabet from holds at position i (0: not at all),
\* as alphabet to has it
Recase(c, from, to) ==
  LET At(i) == IF i = 0 THEN c ELSE Ch(to, i) IN At(Find(from, c, 1))

RECURSIVE RecaseRange(_, _, _, _, _)
\* the characters s[lo..hi] recased, by halves
RecaseRange(s, lo, hi, from, to) ==
  IF lo > hi THEN ""
  ELSE IF lo = hi THEN Recase(Ch(s, lo), from, to)
  ELSE RecaseRange(s, lo, (lo + hi) \div 2, from, to)
         \o RecaseRange(s, (lo + hi) \div 2 + 1, hi, from, to)

\* s.lower()
Lower(s) == RecaseRange(s, 1, Len(s), UpperAlpha, LowerAlpha)

IsDigit(c) == Len(c) = 1 /\ Contains(DigitChars, c)

RECURSIVE SplitOnFrom(_, _, _)
\* s[i-1:].split(sep), the next occurrence of sep being at j (0: none)
SplitOnFrom(s, sep, i) ==
  LET At(j) == IF j = 0 THEN <<SubSeq(s, i, Len(s))>>
               ELSE <<SubSeq(s, i, j - 1)>> \o SplitOnFrom(s, sep, j + 1)
  IN At(Find(s, sep, i))

\* s.split(sep) for a one-character sep
SplitOn(s, sep) == SplitOnFrom(s, sep, 1)

\* s.split(): the whitespace-separated words of s
Split(s) == SelectSeq(SplitOn(s, " "), LAMBDA w : Len(w) > 0)

RECURSIVE Join(_)
\* " ".join(words)
Join(ws) ==
  IF Len(ws) = 0 THEN ""
  ELSE IF Len(ws) = 1 THEN ws[1]
  ELSE ws[1] \o " " \o Join(Tail(ws))

\* ord(c), as the place of c among the characters of the model in code-point order
Ord(c) ==
  Find(" $',()-.0123456789ABCDEFGHIJKLMNOPQRSTUVWXYZ_abcdefghijklmnopqrstuvwxyz|~", c, 1)

\* a < b on Python strings (code-point order), diff being the positions at
\* which a and b differ
StrLess(a, b) ==
  LET Differ(diff) == IF diff = {} THEN Len(a) < Len(b)
                      ELSE Ord(Ch(a, MinOf(diff))) < Ord(Ch(b, MinOf(diff)))
  IN Differ({i \in 1..Len(a) : i <= Len(b) /\ Ch(a, i) # Ch(b, i)})

\* any(term in s for term in terms)
AnyIn(terms, s) == \E k \in 1..Len(terms) : Contains(s, terms[k])

RECURSIVE ReplaceAllStrip(_, _, _)
\* for term in terms[k..]: s = s.replace(term, "").strip()
ReplaceAllStrip(s, terms, k) ==
  IF k > Len(terms) \/ Len(s) = 0 THEN s
  ELSE ReplaceAllStrip(Strip(Replace(s, terms[k], "")), terms, k + 1)

RECURSIVE ReplaceAll(_, _, _)
\* for term in terms[k..]: s = s.replace(term, "")
ReplaceAll(s, terms, k) ==
  IF k > Len(terms) \/ Len(s) = 0 THEN s
  ELSE ReplaceAll(Replace(s, terms[k], ""), terms, k + 1)

\* the sequence xs with every element evaluated
List(xs) == xs \o <<>>

\* list.sort / sorted: stable, ascending by the strict order Less; every
\* element of ys is put at its place pos in that order
SortBy(xs, Less(_, _)) ==
  LET Sorted(ys) ==
        LET Place(pos) ==
              List([p \in 1..Len(ys) |-> ys[CHOOSE i \in 1..Len(ys) : pos[i] = p]])
        IN Place(List([i \in 1..Len(ys) |->
                   1 + Cardinality({j \in 1..Len(ys) : \/ Less(ys[j], ys[i])
                                                       \/ (~Less(ys[i], ys[j]) /\ j < i)})]))
  IN Sorted(List(xs))

\* xs[:n]
Take(xs, n) == IF Len(xs) <= n THEN xs ELSE SubSeq(xs, 1, n)

\* a if a, else b
OrElse(a, b) == IF Len(a) > 0 THEN a ELSE b

(***************************************************************************)
(* Numbers: float(...) of a captured amount, in thousandths of a dollar    *)
(***************************************************************************)
NoneP == [some |-> FALSE, v |-> 0]
Some(x) == [some |-> TRUE, v |-> x]
\* Python truthiness of an Optional[float]: None and 0.0 are falsy
Truthy(p) == p.some /\ p.v # 0

RECURSIVE ParseIntTo(_, _)
\* int(s[:n])
ParseIntTo(s, n) ==
  IF n = 0 THEN 0 ELSE ParseIntTo(s, n - 1) * 10 + Find(DigitChars, Ch(s, n), 1) - 1

\* int(s) for a string of digits
ParseInt(s) == ParseIntTo(s, Len(s))

\* float(cap) for a capture of \d+\.?\d*, its decimal point being at d (0: none)
FloatOf(cap) ==
  LET Point(d) ==
        IF d = 0 THEN ParseInt(cap) * 1000
        ELSE ParseInt(SubSeq(cap, 1, d - 1)) * 1000
               + ParseInt(SubSeq(SubSeq(cap, d + 1, Len(cap)) \o "000", 1, 3))
  IN Point(Find(cap, ".", 1))

(***************************************************************************)
(* The regular expressions of detect_price_query                           *)
(***************************************************************************)
\* the last index of the run of digits that starts at i (i - 1 when there is none)
DigitsEnd(s, i) == FirstOr({j \in i..Len(s) : ~IsDigit(Ch(s, j))}, Len(s) + 1) - 1

\* the last index of the match of \d+\.?\d* that starts at the digit s[i], its
\* leading digits ending at e
NumEnd(s, i) ==
  LET Fraction(e) == IF e < Len(s) /\ Ch(s, e + 1) = "." THEN DigitsEnd(s, e + 2) ELSE e
  IN Fraction(DigitsEnd(s, i))

\* the first index >= i that holds no space (Len(s) + 1 when there is none)
SkipSpaces(s, i) ==
  FirstOr({j \in i..Len(s) : Ch(s, j) # " "}, IF i > Len(s) THEN i ELSE Len(s) + 1)

NoAmount == [ok |-> FALSE, cap |-> "", next |-> 0]

\* \s*\$?(\d+\.?\d*) matched at index i: [ok, cap, next]; the spaces end
\* before index j, the digits start at index k and end at index e
AmountAt(s, i) ==
  LET Amount(k, e) == [ok |-> TRUE, cap |-> SubSeq(s, k, e), next |-> e + 1]
      DigitsAt(k) ==
        IF k <= Len(s) /\ IsDigit(Ch(s, k)) THEN Amount(k, NumEnd(s, k)) ELSE NoAmount
      DollarAt(j) == DigitsAt(IF IsAt(s, j, "$") THEN j + 1 ELSE j)
  IN DollarAt(SkipSpaces(s, i))

\* a if it matched, else b
OrAmount(a, b) == IF a.ok THEN a ELSE b

\* (?:kw1|kw2|..)\s*(?:of)?\s*\$?(\d+\.?\d*) matched at index i (the "of" only
\* when withOf); after the keyword, at index j, the rest matches with the
\* "of", at index o, when the pattern has it, else without
RECURSIVE KwAmountAt(_, _, _, _, _)
KwAmountAt(s, i, kws, withOf, k) ==
  LET AfterKw(j) ==
        LET OfAmountAt(o) ==
              IF withOf /\ IsAt(s, o, "of") THEN AmountAt(s, o + 2) ELSE NoAmount
        IN OrAmount(OfAmountAt(SkipSpaces(s, j)), AmountAt(s, j))
  IN IF k > Len(kws) THEN NoAmount
     ELSE IF ~IsAt(s, i, kws[k]) THEN KwAmountAt(s, i, kws, withOf, k + 1)
     ELSE OrAmount(AfterKw(i + Len(kws[k])), KwAmountAt(s, i, kws, withOf, k + 1))

\* re.search of the pattern: the capture of the leftmost of the matches
\* <<index, match>>, "" when there is none
SearchKw(s, kws, withOf) ==
  LET Leftmost(hits) ==
        IF hits = {} THEN ""
        ELSE (CHOOSE h \in hits : \A g \in hits : h[1] <= g[1])[2].cap
  IN Leftmost({h \in {<<i, KwAmountAt(s, i, kws, withOf, 1)>> : i \in 1..Len(s)} : h[2].ok})

\* the patterns of one family, tried in order: the capture of the first that matches
RECURSIVE FirstPattern(_, _, _)
FirstPattern(s, pats, k) ==
  LET OrNext(cap) == IF cap # "" THEN cap ELSE FirstPattern(s, pats, k + 1)
  IN IF k > Len(pats) THEN "" ELSE OrNext(SearchKw(s, pats[k].kws, pats[k].of))

under_patterns ==
  << [kws |-> <<"under">>, of |-> FALSE],
     [kws |-> <<"less than">>, of |-> FALSE],
     [kws |-> <<"cheaper than">>, of |-> FALSE],
     [kws |-> <<"below">>, of |-> FALSE],
     [kws |-> <<"max", "maximum">>, of |-> TRUE],
     [kws |-> <<"at most", "no more than">>, of |-> FALSE],
     [kws |-> <<"up to", "not exceeding">>, of |-> FALSE] >>

over_patterns ==
  << [kws |-> <<"over">>, of |-> FALSE],
     [kws |-> <<"more than">>, of |-> FALSE],
     [kws |-> <<"above">>, of |-> FALSE],
     [kws |-> <<"min", "minimum">>, of |-> TRUE],
     [kws |-> <<"at least", "no less than">>, of |-> FALSE],
     [kws |-> <<"starting at", "starting from">>, of |-> FALSE] >>

NoBetween == [ok |-> FALSE, lo |-> "", hi |-> ""]

\* between\s*\$?(\d+\.?\d*)\s*(?:and|to|\-)\s*\$?(\d+\.?\d*) matched at index i:
\* the first amount a, the separator (?:and|to|\-) of length sep (0: no match)
\* at index j, the second amount b
BetweenAt(s, i) ==
  LET SepLen(j) ==
        IF IsAt(s, j, "and") THEN 3
        ELSE IF IsAt(s, j, "to") THEN 2 ELSE IF IsAt(s, j, "-") THEN 1 ELSE 0
      First(a) ==
        LET Sep(j) ==
              LET Second(sep) ==
                    LET Both(b) ==
                          IF b.ok THEN [ok |-> TRUE, lo |-> a.cap, hi |-> b.cap] ELSE NoBetween
                    IN IF sep = 0 THEN NoBetween ELSE Both(AmountAt(s, j + sep))
              IN Second(SepLen(j))
        IN IF a.ok THEN Sep(SkipSpaces(s, a.next)) ELSE NoBetween
  IN IF IsAt(s, i, "between") THEN First(AmountAt(s, i + 7)) ELSE NoBetween

\* re.search(between_pattern, s): the leftmost of the matches <<index, match>>
between_match(s) ==
  LET Leftmost(hits) ==
        IF hits = {} THEN NoBetween
        ELSE (CHOOSE h \in hits : \A g \in hits : h[1] <= g[1])[2]
  IN Leftmost({h \in {<<i, BetweenAt(s, i)>> : i \in 1..Len(s)} : h[2].ok})

\* re.search(r'\$?(\d+\.?\d*)', s): the capture, at the first digit of s, at
\* index i; "" when s holds no digit
dollar_match(s) ==
  LET From(i) == IF i = 0 THEN "" ELSE SubSeq(s, i, NumEnd(s, i))
  IN From(FirstOr({i \in 1..Len(s) : IsDigit(Ch(s, i))}, 0))

price_keywords ==
  << "price", "cost", "value", "worth", "expensive", "cheap", "cheapest",
     "affordable", "budget", "money", "dollar", "usd", "$", "most expensive",
     "highest price", "priciest" >>

\* lines 783-829, the bounds after the between / under / over families: those
\* of the between match bm, or of the under capture u and the over capture o
FamilyBounds(query_lower) ==
  LET Bound(cap) == IF cap # "" THEN Some(FloatOf(cap)) ELSE NoneP
      Bounds(bm, u, o) ==
        IF bm.ok THEN [hit |-> TRUE, max |-> Bound(bm.hi), min |-> Bound(bm.lo)]
        ELSE [hit |-> u # "" \/ o # "", max |-> Bound(u), min |-> Bound(o)]
  IN Bounds(between_match(query_lower), FirstPattern(query_lower, under_patterns, 1),
            FirstPattern(query_lower, over_patterns, 1))

\* detect_price_query(query) -> (is_price_query, max_price, min_price); lines
\* 831-844: the bare amount dm, with its 10% band, is used when the families
\* left no bound fb
detect_price_query(query) ==
  LET Around(exact_price) ==
        [is_price_query |-> TRUE, max_price |-> Some((exact_price * 11) \div 10),
         min_price |-> Some((exact_price * 9) \div 10)]
      Detected(query_lower, fb, dm) ==
        IF ~(Truthy(fb.max) \/ Truthy(fb.min))
           /\ dm # "" /\ (Contains(query_lower, "price") \/ Contains(query_lower, "$"))
        THEN Around(FloatOf(dm))
        ELSE [is_price_query |-> AnyIn(price_keywords, query_lower) \/ fb.hit,
              max_price |-> fb.max, min_price |-> fb.min]
  IN Detected(Lower(query), FamilyBounds(Lower(query)), dollar_match(Lower(query)))

(***************************************************************************)
(* Query normalisation                                                     *)
(***************************************************************************)
stattrak_terms == << "stattrak~", "stattrak", "stat trak", "stat-trak", "stattrack", "st" >>
st_terms == << "stat trak", "stat-trak", "stattrack", "st" >>

skin_corrections ==
  << <<"autorinic", "autotronic">>, <<"autronic", "autotronic">>,
     <<"autoronic", "autotronic">>, <<"ultrvoilet", "ultraviolet">>,
     <<"ultraviolt", "ultraviolet">>, <<"doplar", "doppler">>, <<"doplr", "doppler">>,
     <<"marbl", "marble">>, <<"marbel", "marble">>, <<"marblefade", "marble fade">>,
     <<"tigertoot", "tiger tooth">>, <<"tiger toot", "tiger tooth">>,
     <<"casehardened", "case hardened">>, <<"case-hardened", "case hardened">>,
     <<"crim web", "crimson web">>, <<"crimsonweb", "crimson web">>,
     <<"blu steel", "blue steel">>, <<"damascus", "damascus steel">>,
     <<"rust", "rust coat">>, <<"gamma dopler", "gamma doppler">>,
     <<"gamma-doppler", "gamma doppler">> >>

RECURSIVE ApplyCorrections(_, _, _)
\* for misspelling, correction in table[k..]: q = q.replace(misspelling, correction)
ApplyCorrections(q, table, k) ==
  IF k > Len(table) \/ Len(q) = 0 THEN q
  ELSE ApplyCorrections(Replace(q, table[k][1], table[k][2]), table, k + 1)

\* for st_term in st_terms: if st_term in q: q = q.replace(st_term, "stattrak")
NormalizeStatTrak(q) ==
  ApplyCorrections(q, [k \in 1..Len(st_terms) |-> <<st_terms[k], "stattrak">>], 1)

\* the table of _correct_spelling: that of fuzzy_search and the karambit entry
spelling_corrections == skin_corrections \o << <<"karambit", "karambit">> >>

\* _correct_spelling(query)
correct_spelling(query) ==
  ApplyCorrections(NormalizeStatTrak(Strip(Lower(query))), spelling_corrections, 1)

(***************************************************************************)
(* fuzzywuzzy (imported at line 5): process.extract with its default       *)
(* scorer fuzz.WRatio and processor utils.full_process, over the pure      *)
(* Python difflib.SequenceMatcher backend                                  *)
(***************************************************************************)
\* int(round(num / den)) for num >= 0, den > 0: the quotient q with remainder
\* r, halves rounded to even as Python 3 does
RoundDiv(num, den) ==
  LET HalfEven(q, r) == IF 2 * r > den \/ (2 * r = den /\ q % 2 = 1) THEN q + 1 ELSE q
  IN HalfEven(num \div den, num % den)

RECURSIVE ProcessRange(_, _, _)
\* what utils.full_process makes of the characters s[lo..hi], by halves:
\* non-ASCII is dropped, the lowered character l is kept if a letter, digit or
\* underscore, else blanked
ProcessRange(s, lo, hi) ==
  LET WordOrBlank(l) ==
        IF Contains("0123456789_abcdefghijklmnopqrstuvwxyz", l) THEN l ELSE " "
      ProcessChar(c) ==
        IF c = TM THEN "" ELSE WordOrBlank(Recase(c, UpperAlpha, LowerAlpha))
  IN IF lo > hi THEN ""
     ELSE IF lo = hi THEN ProcessChar(Ch(s, lo))
     ELSE ProcessRange(s, lo, (lo + hi) \div 2) \o ProcessRange(s, (lo + hi) \div 2 + 1, hi)

\* utils.full_process(s, force_ascii=True)
full_process(s) == Strip(ProcessRange(s, 1, Len(s)))

\* SequenceMatcher.find_longest_match(alo, ahi, blo, bhi): the longest of the
\* blocks <<i, j, size>>, the earliest in a and then in b among the longest;
\* the size is the length of the longest common prefix of a[i..] and b[j..]
\* within n characters
find_longest_match(a, alo, ahi, b, blo, bhi) ==
  LET MatchLen(i, j, n) ==
        FirstOr({k \in 1..n : Ch(a, i + k - 1) # Ch(b, j + k - 1)}, n + 1) - 1
      Longest(sized) ==
        IF sized = {} THEN <<alo, blo, 0>>
        ELSE CHOOSE c \in sized : \A d \in sized :
               \/ c[3] > d[3]
               \/ c[3] = d[3] /\ (c[1] < d[1] \/ (c[1] = d[1] /\ c[2] <= d[2]))
  IN Longest({<<p[1], p[2], MatchLen(p[1], p[2], MinOf({ahi - p[1], bhi - p[2]}) + 1)>> :
                p \in {p \in (alo..ahi) \X (blo..bhi) : Ch(a, p[1]) = Ch(b, p[2])}})

RECURSIVE matching_blocks(_, _, _, _, _, _)
\* SequenceMatcher.get_matching_blocks() restricted to a[alo..ahi], b[blo..bhi]:
\* the set of blocks <<i, j, size>>, the longest block m with the matching
\* blocks to its left and to its right
matching_blocks(a, alo, ahi, b, blo, bhi) ==
  LET Around(m) ==
        IF m[3] = 0 THEN {}
        ELSE {m} \cup matching_blocks(a, alo, m[1] - 1, b, blo, m[2] - 1)
                 \cup matching_blocks(a, m[1] + m[3], ahi, b, m[2] + m[3], bhi)
  IN IF alo > ahi \/ blo > bhi THEN {}
     ELSE Around(find_longest_match(a, alo, ahi, b, blo, bhi))

RECURSIVE SumSizes(_)
SumSizes(blocks) ==
  IF blocks = {} THEN 0
  ELSE (CHOOSE x \in blocks : TRUE)[3] + SumSizes(blocks \ {CHOOSE x \in blocks : TRUE})

\* SequenceMatcher(None, a, b).ratio() as <<2 * matches, len(a) + len(b)>>
Matches2(a, b) ==
  <<2 * SumSizes(matching_blocks(a, 1, Len(a), b, 1, Len(b))), Len(a) + Len(b)>>

\* utils.intr(100 * r) for the fraction r
Percent(r) == RoundDiv(100 * r[1], r[2])

\* fuzz.partial_ratio of a shorter and a longer string: the ratios of the
\* shorter string against the windows longer[st:st + n] that the matching
\* blocks (the closing empty block included) line up; 100 as soon as a window
\* scores above .995, else the best window
PartialOf(shorter, longer) ==
  LET LongStart(m) == IF m[2] - m[1] > 0 THEN m[2] - m[1] ELSE 0
      Window(st, n) == SubSeq(longer, st + 1, MinOf({st + n, Len(longer)}))
      BestWindow(scores) ==
        IF \E x \in scores : 1000 * x[1] > 995 * x[2] THEN 100
        ELSE Percent(CHOOSE x \in scores : \A y \in scores : x[1] * y[2] >= y[1] * x[2])
  IN BestWindow({Matches2(shorter, Window(st, Len(shorter))) :
                   st \in {LongStart(m) :
                             m \in matching_blocks(shorter, 1, Len(shorter),
                                                   longer, 1, Len(longer))}
                           \cup {Len(longer) - Len(shorter)}})

\* fuzz.ratio(s1, s2), or fuzz.partial_ratio(s1, s2) when partial
Fz(partial, s1, s2) ==
  IF s1 = s2 THEN 100
  ELSE IF Len(s1) = 0 \/ Len(s2) = 0 THEN 0
  ELSE IF ~partial THEN Percent(Matches2(s1, s2))
  ELSE PartialOf(IF Len(s1) <= Len(s2) THEN s1 ELSE s2, IF Len(s1) <= Len(s2) THEN s2 ELSE s1)

\* fuzz._process_and_sort(s)
process_and_sort(s) == Strip(Join(SortBy(Split(s), StrLess)))

\* sorted(set(s.split())): the distinct elements of the sorted sequence ws
Tokens(s) ==
  LET Dedup(ws) ==
        SelectSeq([i \in 1..Len(ws) |-> IF i > 1 /\ ws[i - 1] = ws[i] THEN "" ELSE ws[i]],
                  LAMBDA w : Len(w) > 0)
  IN List(Dedup(SortBy(Split(s), StrLess)))

\* fuzz._token_set: from the intersection and the two differences of the token
\* sets t1 and t2, sorted_sect, combined_1to2 and combined_2to1, which it
\* compares pairwise
TokenSets(t1, t2) ==
  LET Member(ws, w) == \E k \in 1..Len(ws) : ws[k] = w
      Pairs(sect, c12, c21) == {<<sect, c12>>, <<sect, c21>>, <<c12, c21>>}
      Combined(sect, d12, d21) ==
        Pairs(sect, Strip(sect \o " " \o d12), Strip(sect \o " " \o d21))
  IN Combined(Join(SelectSeq(t1, LAMBDA w : Member(t2, w))),
              Join(SelectSeq(t1, LAMBDA w : ~Member(t2, w))),
              Join(SelectSeq(t2, LAMBDA w : ~Member(t1, w))))

\* the string pairs that fuzz.WRatio(p1, p2) scores, each with the scorer
\* (partial or not) and the scale in ten-thousandths of its score:
\* ratio; partial_ratio when try_partial; _token_sort; the three of _token_set
WPairs(p1, p2, partial, pscale) ==
  {<<FALSE, p1, p2, 10000>>}
    \cup (IF partial THEN {<<TRUE, p1, p2, 100 * pscale>>} ELSE {})
    \cup {<<partial, process_and_sort(p1), process_and_sort(p2), 95 * pscale>>}
    \cup {<<partial, p[1], p[2], 95 * pscale>> : p \in TokenSets(Tokens(p1), Tokens(p2))}

\* fuzz.WRatio(p1, p2, full_process=False): try_partial unless the lengths are
\* within 1.5 of each other, partial_scale .6 beyond 8, else .9 (1 without
\* partial); utils.intr(max(base, partial * partial_scale, ..))
WRatio(p1, p2) ==
  LET lmax == MaxOf({Len(p1), Len(p2)})
      lmin == MinOf({Len(p1), Len(p2)})
  IN IF Len(p1) = 0 \/ Len(p2) = 0 THEN 0
     ELSE RoundDiv(MaxOf({Fz(w[1], w[2], w[3]) * w[4] :
                            w \in WPairs(p1, p2, ~(2 * lmax < 3 * lmin),
                                         IF 2 * lmax < 3 * lmin THEN 100
                                         ELSE IF lmax > 8 * lmin THEN 60 ELSE 90)}),
                   10000)

\* process.extract(query, choices, limit): the choices scored against the
\* processed query, as <<choice, score>> pairs, best first, ties in the order
\* of choices
extract(query, choices, limit) ==
  Take(SortBy([i \in 1..Len(choices) |->
                 <<choices[i], WRatio(full_process(query), full_process(choices[i]))>>],
              LAMBDA x, y : x[2] > y[2]), limit)

(***************************************************************************)
(* The engine: SimpleSkinSearchEngine and its catalog                      *)
(***************************************************************************)
VARIABLES
  items,               \* self.items: name -> item data
  item_names,          \* self.item_names
  item_names_lower,    \* self.item_names_lower
  weapon_type_index,   \* self.weapon_type_index: weapon (lower case) -> names
  stattrak_items,      \* self.stattrak_items
  non_stattrak_items,  \* self.non_stattrak_items
  stattrak_mapping,    \* self.stattrak_mapping: name without StatTrak -> StatTrak name
  from_hierarchical,   \* self._from_hierarchical: "unset" until search first sets it
  loading,             \* the call of load_data in progress on the live engine, if any
  semantic,            \* the SkinSearchEngine of search_utils and its embeddings cache file
  calls                \* what the callers saw: the operations so far with their results

vars == << items, item_names, item_names_lower, weapon_type_index,
           stattrak_items, non_stattrak_items, stattrak_mapping, from_hierarchical,
           loading, semantic, calls >>

\* the cache file of the embeddings does not exist
NoCache == [state |-> "absent", item_names |-> <<>>, embeddings |-> <<>>]

\* no SkinSearchEngine of search_utils is constructed: the attributes as
\* __init__ sets them (model, embeddings and index None; embeddings and index
\* are the texts that were encoded, row by row), the cache file, and how often
\* the catalog was encoded and the cache file written
NoSemantic ==
  [model |-> "None", item_names |-> <<>>, embeddings |-> <<>>, index |-> <<>>,
   cache |-> NoCache, encoded |-> 0, written |-> 0]

\* no call of load_data is in progress
Idle == [pc |-> "idle", data |-> <<>>]

\* a price field of an item record as the JSON snapshot holds it
Num(x) == [tag |-> "num", v |-> x]
Absent == [tag |-> "absent", v |-> 0]
Null == [tag |-> "null", v |-> 0]
Bad == [tag |-> "bad", v |-> 0]

\* float(item_data.get(field, '999999')): a missing field reads as 999999, null
\* raises TypeError and an unparseable string ValueError
PyFloat(f) ==
  IF f.tag = "num" THEN [ok |-> TRUE, v |-> f.v]
  ELSE IF f.tag = "absent" THEN [ok |-> TRUE, v |-> 999999 * 1000]
  ELSE [ok |-> FALSE, v |-> 0]

\* "stattrak(TM)" in lower or "stattrak" in lower
IsStatTrakName(lower) == Contains(lower, "stattrak" \o TM) \/ Contains(lower, "stattrak")

\* the try block that builds a result dictionary raises for this item
Raises(name) ==
  \/ ~PyFloat(items[name].min_price).ok
  \/ ~PyFloat(items[name].max_price).ok
  \/ ~PyFloat(items[name].suggested_price).ok

\* the result dictionary of an item (match_score -1: the key is absent)
ResultOf(name, score) ==
  [item_name |-> name,
   min_price |-> PyFloat(items[name].min_price).v,
   max_price |-> PyFloat(items[name].max_price).v,
   suggested_price |-> PyFloat(items[name].suggested_price).v,
   quantity |-> items[name].quantity,
   match_score |-> score]

\* the result dictionaries of the names ok whose price data converts, in order
ResultsOf(names, score) ==
  LET Results(ok) == List([k \in 1..Len(ok) |-> ResultOf(ok[k], score)])
  IN Results(SelectSeq(names, LAMBDA n : ~Raises(n)))

\* the first components of a sequence of pairs
Firsts(ps) == List([k \in 1..Len(ps) |-> ps[k][1]])

\* sort orders: by ascending and descending min_price, by descending second
\* component
PriceAsc(x, y) == x.min_price < y.min_price
PriceDesc(x, y) == x.min_price > y.min_price
ScoreDesc(x, y) == x[2] > y[2]

weapon_types ==
  << "AK-47", "M4A4", "M4A1-S", "AWP", "Desert Eagle", "USP-S", "Glock-18",
     "P250", "Five-SeveN", "CZ75-Auto", "Tec-9", "Knife", "Karambit", "Bayonet",
     "Butterfly", "Gloves", "P90", "MAC-10", "MP9", "MP7", "UMP-45", "PP-Bizon",
     "Galil AR", "FAMAS", "SG 553", "AUG", "SSG 08", "G3SG1", "SCAR-20" >>

\* the keys of weapon_type_index, in insertion order
weapon_keys == [k \in 1..Len(weapon_types) |-> Lower(weapon_types[k])]

\* the pattern at place k, "" (None) when k is 0
PatternAt(patterns, k) == IF k = 0 THEN "" ELSE patterns[k]

\* the first of the patterns that occurs in q ("" when none does)
FirstIn(patterns, q) ==
  PatternAt(patterns, FirstOr({k \in 1..Len(patterns) : Contains(q, patterns[k])}, 0))

\* _build_weapon_index without the break of lines 82 and 89: an item is filed
\* under every weapon type whose name occurs in its name
build_weapon_index_all(names) ==
  [w \in {weapon_keys[k] : k \in 1..Len(weapon_keys)} |->
     SelectSeq(names, LAMBDA n : Contains(Lower(n), w))]

\* _build_weapon_index: an item is filed under the first weapon type whose
\* lower-cased name occurs in the lower-cased item name
build_weapon_index(names) ==
  [w \in {weapon_keys[k] : k \in 1..Len(weapon_keys)} |->
     SelectSeq(names, LAMBDA n : FirstIn(weapon_keys, Lower(n)) = w)]

\* self.weapon_type_index.get(weapon_lower, [])
IndexGet(weapon_lower) ==
  IF weapon_lower \in DOMAIN weapon_type_index THEN weapon_type_index[weapon_lower] ELSE <<>>

\* the name a StatTrak item is filed under in stattrak_mapping
NonStName(name) == Replace(Replace(name, "StatTrak" \o TM \o " ", ""), "StatTrak ", "")

\* the items of names that are StatTrak items
StatTrakOnly(names) == SelectSeq(names, LAMBDA n : IsStatTrakName(Lower(n)))

\* _build_stattrak_index: the mapping of the StatTrak names st (the last
\* StatTrak item of a key wins)
build_stattrak_mapping(names) ==
  LET StatTrakMap(st) ==
        [key \in {NonStName(st[k]) : k \in 1..Len(st)} |->
           st[MaxOf({k \in 1..Len(st) : NonStName(st[k]) = key})]]
  IN StatTrakMap(StatTrakOnly(names))

\* list(self.items.keys()) after line 41: the keys of the dictionary in
\* insertion order, the market_hash_name of every record of the snapshot in
\* the order of their first occurrence
SnapshotNames(snapshot) ==
  LET FirstOccurrences(names) ==
        List([k \in 1..Cardinality({names[i] : i \in 1..Len(names)}) |->
                names[CHOOSE i \in 1..Len(names) :
                        /\ \A j \in 1..(i - 1) : names[j] # names[i]
                        /\ Cardinality({names[j] : j \in 1..i}) = k]])
  IN FirstOccurrences(List([i \in 1..Len(snapshot) |-> snapshot[i].market_hash_name]))

\* the dictionary of line 41: it keeps the last record r of a name
SnapshotItems(snapshot) ==
  LET ItemData(r) ==
        [min_price |-> r.min_price, max_price |-> r.max_price,
         suggested_price |-> r.suggested_price, quantity |-> r.quantity]
  IN [n \in {snapshot[i].market_hash_name : i \in 1..Len(snapshot)} |->
        ItemData(snapshot[MaxOf({i \in 1..Len(snapshot) :
                                   snapshot[i].market_hash_name = n})])]

\* load_data: the engine state built from a snapshot, the indices being built
\* over the names of the dictionary
load_data(snapshot) ==
  LET Loaded(names) ==
        /\ item_names = names
        /\ item_names_lower = [k \in 1..Len(names) |-> Lower(names[k])]
        /\ weapon_type_index = build_weapon_index(names)
        /\ stattrak_items = StatTrakOnly(names)
        /\ non_stattrak_items = SelectSeq(names, LAMBDA n : ~IsStatTrakName(Lower(n)))
        /\ stattrak_mapping = build_stattrak_mapping(names)
  IN /\ items = SnapshotItems(snapshot)
     /\ Loaded(SnapshotNames(snapshot))

\* enumerate(self.item_names_lower) with self.item_names[i]: <<name, name_lower>>
NamePairs == [i \in 1..Len(item_names) |-> <<item_names[i], item_names_lower[i]>>]

weapon_names ==
  << <<"ak-47", <<"ak47", "ak-47", "ak">> >>,
     <<"m4a4", <<"m4a4">> >>,
     <<"m4a1-s", <<"m4a1s", "m4a1-s", "m4a1">> >>,
     <<"awp", <<"awp">> >>,
     <<"desert eagle", <<"deagle", "desert eagle", "eagle">> >>,
     <<"glock-18", <<"glock", "glock-18", "glock18">> >>,
     <<"usp-s", <<"usp-s", "usps", "usp">> >>,
     <<"p250", <<"p250">> >>,
     <<"knife", <<"knife">> >>,
     <<"karambit", <<"karambit">> >> >>

wear_conditions ==
  << <<"factory new", <<"factory new", "fn">> >>,
     <<"minimal wear", <<"minimal wear", "mw">> >>,
     <<"field-tested", <<"field-tested", "field tested", "ft">> >>,
     <<"well-worn", <<"well-worn", "well worn", "ww">> >>,
     <<"battle-scarred", <<"battle-scarred", "battle scarred", "bs">> >> >>

\* the first entry of an alias table one of whose aliases occurs in q (0: none)
FirstEntry(table, q) == FirstOr({k \in 1..Len(table) : AnyIn(table[k][2], q)}, 0)

\* the key of entry k of an alias table, "" (None) when k is 0
KeyOf(table, k) == IF k = 0 THEN "" ELSE table[k][1]

\* q with the first alias of entry k that occurs in it removed
WithoutAlias(q, table, k) ==
  IF k = 0 THEN q ELSE Strip(Replace(q, FirstIn(table[k][2], q), ""))

\* the components _match_by_parsed_components extracts from a query: lines
\* 186-190, the StatTrak terms are removed from the query; lines 208-216, the
\* weapon type w is removed; lines 227-238, the wear condition c is removed
\* and the skin name remains
parsed_components(query_lower) ==
  LET ParsedStatTrak(is_stattrak) ==
        LET ParsedWeapon(q) ==
              LET ParsedWeaponAt(w) ==
                    LET ParsedWear(rest) ==
                          LET ParsedWearAt(c) ==
                                [is_stattrak |-> is_stattrak,
                                 weapon_type |-> KeyOf(weapon_names, w),
                                 wear_condition |-> KeyOf(wear_conditions, c),
                                 skin_name |-> Strip(WithoutAlias(rest, wear_conditions, c))]
                          IN ParsedWearAt(FirstEntry(wear_conditions, rest))
                    IN ParsedWear(WithoutAlias(q, weapon_names, w))
              IN ParsedWeaponAt(FirstEntry(weapon_names, q))
        IN ParsedWeapon(IF is_stattrak THEN ReplaceAllStrip(query_lower, stattrak_terms, 1)
                        ELSE query_lower)
  IN ParsedStatTrak(AnyIn(stattrak_terms, query_lower))

\* lines 241-268 without the StatTrak test of lines 250-251
match_by_parsed_components_flagless(query_lower) ==
  LET MatchComponents(pc) ==
        IF pc.weapon_type = "" /\ pc.skin_name = "" /\ pc.wear_condition = "" THEN <<>>
        ELSE SelectSeq(item_names, LAMBDA item_name :
               /\ ~(pc.weapon_type # "" /\ ~Contains(Lower(item_name), pc.weapon_type))
               /\ ~(pc.skin_name # "" /\ ~Contains(Lower(item_name), pc.skin_name))
               /\ ~(pc.wear_condition # "" /\ ~Contains(Lower(item_name), pc.wear_condition)))
  IN MatchComponents(parsed_components(query_lower))

\* _match_by_parsed_components(query_lower); lines 241-268: the items that
\* match every extracted component
match_by_parsed_components(query_lower) ==
  LET MatchComponents(pc) ==
        IF pc.weapon_type = "" /\ pc.skin_name = "" /\ pc.wear_condition = "" THEN <<>>
        ELSE SelectSeq(item_names, LAMBDA item_name :
               /\ ~(pc.is_stattrak /\ ~IsStatTrakName(Lower(item_name)))
               /\ ~(pc.weapon_type # "" /\ ~Contains(Lower(item_name), pc.weapon_type))
               /\ ~(pc.skin_name # "" /\ ~Contains(Lower(item_name), pc.skin_name))
               /\ ~(pc.wear_condition # "" /\ ~Contains(Lower(item_name), pc.wear_condition)))
  IN MatchComponents(parsed_components(query_lower))

\* the query names StatTrak without the trademark sign that the item name has
AltForm(query_lower, name_lower) ==
  /\ Contains(name_lower, "stattrak" \o TM)
  /\ Contains(query_lower, "stattrak")
  /\ AnyIn(<<"stattrak" \o TM, "stattrak", "stat trak", "stat-trak">>, query_lower)

\* query_lower.replace("stattrak", "stattrak(TM)")
WithTM(query_lower) == Replace(query_lower, "stattrak", "stattrak" \o TM)

\* exact_match, lines 129-167: exact, then parsed components, then prefix,
\* then contains
ExactMatchLower(query_lower) ==
  OrElse(
    OrElse(
      OrElse(Firsts(SelectSeq(NamePairs, LAMBDA p :
                \/ query_lower = p[2]
                \/ (AltForm(query_lower, p[2]) /\ WithTM(query_lower) = p[2]))),
             match_by_parsed_components(query_lower)),
      Firsts(SelectSeq(NamePairs, LAMBDA p :
                \/ StartsWith(p[2], query_lower)
                \/ (AltForm(query_lower, p[2]) /\ StartsWith(p[2], WithTM(query_lower)))))),
    Firsts(SelectSeq(NamePairs, LAMBDA p :
              \/ Contains(p[2], query_lower)
              \/ (AltForm(query_lower, p[2]) /\ Contains(p[2], WithTM(query_lower))))))

\* exact_match(query)
exact_match(query) == ExactMatchLower(Strip(Lower(query)))

\* lines 315-332: the weapon's items whose cleaned name, which is
\* item_lower.replace("stattrak(TM) ", "").replace("stattrak ", ""), contains
\* the skin name
SubstringMatches(weapon_items, is_stattrak, detected_wear, clean_skin_lower) ==
  LET CleanItemName(item_lower) ==
        Replace(Replace(item_lower, "stattrak" \o TM \o " ", ""), "stattrak ", "")
  IN SelectSeq(weapon_items, LAMBDA item_name :
       /\ ~(is_stattrak /\ ~IsStatTrakName(Lower(item_name)))
       /\ Contains(CleanItemName(Lower(item_name)), clean_skin_lower)
       /\ (detected_wear = "" \/ Contains(Lower(item_name), detected_wear)))

\* lines 338-352: the weapon's items that have a skin part, StatTrak and wear permitting
SkinItems(weapon_items, is_stattrak, detected_wear) ==
  SelectSeq(weapon_items, LAMBDA item_name :
    /\ ~(is_stattrak /\ ~IsStatTrakName(Lower(item_name)))
    /\ Len(SplitOn(Lower(item_name), "|")) >= 2
    /\ (detected_wear = "" \/ Contains(Lower(item_name), detected_wear)))

\* lines 357-366: process.extract over the skin parts, scores of 75 and more
\* kept; the items of these good matches, by descending score (IndexIn is
\* list.index)
FuzzySkinParts(skin_items, skin_parts, clean_skin_lower) ==
  LET IndexIn(xs, x) == MinOf({k \in 1..Len(xs) : xs[k] = x})
      GoodMatches(good) ==
        Firsts(SortBy([k \in 1..Len(good) |->
                         <<skin_items[IndexIn(skin_parts, good[k][1])], good[k][2]>>],
                      ScoreDesc))
  IN GoodMatches(SelectSeq(extract(clean_skin_lower, skin_parts, 10), LAMBDA m : m[2] >= 75))

\* lines 355-366: the skin part is parts[1].split("(")[0].strip(), the text
\* after | and before the wear condition
FuzzySkin(skin_items, clean_skin_lower) ==
  LET SkinPart(item_name) == Strip(SplitOn(SplitOn(Lower(item_name), "|")[2], "(")[1])
  IN IF Len(skin_items) = 0 THEN <<>>
     ELSE FuzzySkinParts(skin_items,
                         List([k \in 1..Len(skin_items) |-> SkinPart(skin_items[k])]),
                         clean_skin_lower)

\* lines 314-368: the substring matches, else the fuzzy matches on the skin part
SkinMatches(weapon_items, is_stattrak, detected_wear, clean_skin_lower) ==
  OrElse(SubstringMatches(weapon_items, is_stattrak, detected_wear, clean_skin_lower),
         IF clean_skin_lower = "" THEN <<>>
         ELSE FuzzySkin(SkinItems(weapon_items, is_stattrak, detected_wear), clean_skin_lower))

\* search_by_weapon_and_skin(weapon_type, skin_name); lines 288-311: the wear
\* entry c detected in the skin name, its aliases and the StatTrak terms
\* removed from the skin name
search_by_weapon_and_skin(weapon_type, skin_name) ==
  LET skin_lower == Strip(Lower(skin_name))
      WithoutWear(c) ==
        IF c = 0 THEN skin_lower ELSE ReplaceAllStrip(skin_lower, wear_conditions[c][2], 1)
  IN SkinMatches(IndexGet(Lower(weapon_type)), AnyIn(stattrak_terms, skin_lower),
                 KeyOf(wear_conditions, FirstEntry(wear_conditions, skin_lower)),
                 ReplaceAllStrip(WithoutWear(FirstEntry(wear_conditions, skin_lower)),
                                 stattrak_terms, 1))

\* xs[:limit]; limit 0 stands for None (no limit)
Limit(xs, limit) == IF limit = 0 THEN xs ELSE Take(xs, limit)

\* search_cheapest_by_weapon(weapon_type, limit)
search_cheapest_by_weapon(weapon_type, limit) ==
  Limit(SortBy(ResultsOf(IndexGet(Lower(weapon_type)), -1), PriceAsc), limit)

\* search_most_expensive_by_weapon(weapon_type, limit)
search_most_expensive_by_weapon(weapon_type, limit) ==
  Limit(SortBy(ResultsOf(IndexGet(Lower(weapon_type)), -1), PriceDesc), limit)

container_keywords ==
  << "Sticker", "Patch", "Graffiti", "Case", "Container", "Capsule", "Music Kit", "Charm" >>

price_range_weapons ==
  << "AK-47", "M4A4", "M4A1-S", "AWP", "Desert Eagle", "USP-S", "Glock-18",
     "P250", "Five-SeveN", "CZ75-Auto", "Tec-9", "Knife", "Karambit", "Bayonet",
     "Butterfly", "Gloves", "P90", "MAC-10", "MP9", "MP7", "UMP-45", "PP-Bizon",
     "Galil AR", "FAMAS", "SG 553", "AUG", "SSG 08", "G3SG1", "SCAR-20", "Dual Berettas",
     "R8 Revolver", "P2000", "MP5-SD", "MAG-7", "Nova", "Sawed-Off", "XM1014", "M249", "Negev",
     "Bowie", "Classic Knife", "Falchion", "Flip", "Gut", "Huntsman", "Kukri", "M9 Bayonet",
     "Navaja", "Nomad", "Paracord", "Shadow Daggers", "Skeleton", "Stiletto", "Survival", "Talon",
     "Ursus", "Zeus x27" >>

\* the container rule without its weapon exception
IsContainerByKeyword(item_name) ==
  AnyIn(container_keywords, item_name)

\* the item is skipped as a container (sticker, case, ...) that names no weapon
IsContainer(item_name) ==
  AnyIn(container_keywords, item_name) /\ ~AnyIn(price_range_weapons, item_name)

\* the item passes the filter of search_by_price_range
InPriceRange(item_name, max_price, min_price) ==
  /\ ~IsContainer(item_name)
  /\ PyFloat(items[item_name].min_price).ok
  /\ (~max_price.some \/ PyFloat(items[item_name].min_price).v <= max_price.v)
  /\ PyFloat(items[item_name].min_price).v >= min_price
  /\ ~Raises(item_name)

\* the "smart sorting" of search_by_price_range
PriceRangeSort(price_data, max_price, min_price) ==
  IF max_price.some /\ min_price > 0 THEN SortBy(price_data, PriceAsc)
  ELSE IF max_price.some THEN SortBy(price_data, PriceDesc)
  ELSE SortBy(price_data, PriceAsc)

\* search_by_price_range(weapon_type, max_price, min_price); weapon_type "" is None
search_by_price_range(weapon_type, max_price, min_price) ==
  Take(PriceRangeSort(
         ResultsOf(SelectSeq(IF weapon_type # "" THEN IndexGet(Lower(weapon_type))
                             ELSE item_names,
                             LAMBDA n : InPriceRange(n, max_price, min_price)), -1),
         max_price, min_price), 15)

skin_patterns ==
  << "autotronic", "lore", "doppler", "gamma doppler", "marble fade", "tiger tooth",
     "fade", "crimson web", "slaughter", "case hardened", "ultraviolet", "night",
     "blue steel", "damascus steel", "rust coat", "scorched", "forest ddpat",
     "urban masked", "stained", "safari mesh", "boreal forest" >>

weapon_prefixes ==
  << <<"ak", "ak-47">>, <<"ak47", "ak-47">>, <<"ak-47", "ak-47">>,
     <<"m4a4", "m4a4">>, <<"m4a1s", "m4a1-s">>, <<"m4a1-s", "m4a1-s">>, <<"m4", "m4a4">>,
     <<"awp", "awp">>, <<"deagle", "desert eagle">>, <<"desert eagle", "desert eagle">>,
     <<"glock", "glock-18">>, <<"glock18", "glock-18">>, <<"glock-18", "glock-18">>,
     <<"usp", "usp-s">>, <<"usps", "usp-s">>, <<"usp-s", "usp-s">>,
     <<"p250", "p250">>, <<"fiveseven", "five-seven">>, <<"five-seven", "five-seven">>,
     <<"cz", "cz75-auto">>, <<"cz75", "cz75-auto">>, <<"cz75-auto", "cz75-auto">>,
     <<"tec9", "tec-9">>, <<"tec-9", "tec-9">>,
     <<"karambit", "karambit">>, <<"bayonet", "bayonet">>, <<"butterfly", "butterfly knife">>,
     <<"m9", "m9 bayonet">>, <<"m9 bayonet", "m9 bayonet">>, <<"flip", "flip knife">>,
     <<"gut", "gut knife">>, <<"falchion", "falchion knife">>, <<"shadow", "shadow daggers">>,
     <<"huntsman", "huntsman knife">>, <<"bowie", "bowie knife">>, <<"daggers", "shadow daggers">>,
     <<"knife", "knife">> >>

\* "use the StatTrak matches if there are any, otherwise all matches"
PreferStatTrak(is_stattrak, names) ==
  IF is_stattrak /\ Len(StatTrakOnly(names)) > 0 THEN StatTrakOnly(names) ELSE names

\* lines 669-676 and 711-718: the items that hold the weapon, the detected skin
\* pattern and the detected wear
Targeted(weapon_type, detected_skin, detected_wear, is_stattrak) ==
  IF detected_skin = "" \/ detected_wear = "" THEN <<>>
  ELSE SelectSeq(item_names, LAMBDA item_name :
         /\ Contains(Lower(item_name), weapon_type)
         /\ Contains(Lower(item_name), detected_skin)
         /\ Contains(Lower(item_name), detected_wear)
         /\ (~is_stattrak \/ Contains(Lower(item_name), "stattrak")))

\* lines 661-691 and 703-734: the targeted matches, else the weapon and skin
\* search; target is <<weapon, skin name>>
DirectSearch(normalized_query, is_stattrak, target) ==
  IF target[1] = "" THEN <<>>
  ELSE OrElse(Targeted(target[1], FirstIn(skin_patterns, normalized_query),
                       KeyOf(wear_conditions, FirstEntry(wear_conditions, normalized_query)),
                       is_stattrak),
              IF target[2] = "" THEN <<>>
              ELSE PreferStatTrak(is_stattrak, search_by_weapon_and_skin(target[1], target[2])))

\* lines 653-734, the direct search: the weapon of the first word and the rest
\* of the query (lines 654-659), or the Karambit branch and its skin name
\* (lines 694-701), target <<"", "">> when neither branch is taken;
\* PrefixWeapon is weapon_prefixes.get(word), "" when the word is no key
DirectMatches(normalized_query, is_stattrak, parts) ==
  LET PrefixWeapon(word) ==
        PatternAt([k \in 1..Len(weapon_prefixes) |-> weapon_prefixes[k][2]],
                  FirstOr({k \in 1..Len(weapon_prefixes) : weapon_prefixes[k][1] = word}, 0))
      KarambitSkin(rest) ==
        IF is_stattrak THEN ReplaceAllStrip(rest, stattrak_terms, 1) ELSE rest
      DirectTarget(weapon_type, skin_name) ==
        IF weapon_type # ""
        THEN (IF skin_name = "" THEN <<"", "">> ELSE <<weapon_type, skin_name>>)
        ELSE IF Contains(normalized_query, "karambit")
        THEN <<"karambit", KarambitSkin(Strip(Replace(normalized_query, "karambit", "")))>>
        ELSE <<"", "">>
  IN DirectSearch(normalized_query, is_stattrak,
                  DirectTarget(IF Len(parts) > 0 THEN PrefixWeapon(parts[1]) ELSE "",
                               IF Len(parts) > 0 THEN Join(Tail(parts)) ELSE ""))

\* lines 743-747: the StatTrak results if the best scores above 80, else all items
ExtractOr(stattrak_results, normalized_query, limit) ==
  IF Len(stattrak_results) > 0 /\ stattrak_results[1][2] > 80 THEN stattrak_results
  ELSE extract(normalized_query, item_names, limit)

\* lines 602-747: every direct match is given the score 100; the fall back is
\* process.extract, over the StatTrak items first when StatTrak is asked for
\* (lines 738-747)
FuzzyNormalized(normalized_query, is_stattrak, limit) ==
  LET Scored100(names) == List([k \in 1..Len(names) |-> <<names[k], 100>>])
  IN OrElse(Scored100(DirectMatches(normalized_query, is_stattrak, Split(normalized_query))),
            ExtractOr(IF is_stattrak THEN extract(normalized_query, stattrak_items, limit)
                      ELSE <<>>,
                      normalized_query, limit))

\* fuzzy_search(query, top_k): a list of <<item name, score>>; top_k 0 is None.
\* Lines 563-600 normalise the lowered query
fuzzy_search(query, top_k) ==
  LET query_lower == Strip(Lower(query))
  IN IF Len(item_names) = 0 THEN <<>>
     ELSE FuzzyNormalized(ApplyCorrections(NormalizeStatTrak(query_lower),
                                           skin_corrections, 1),
                          AnyIn(stattrak_terms, query_lower),
                          IF top_k = 0 THEN Len(item_names) ELSE top_k)

\* min_price or 0
OrZero(p) == IF p.some THEN p.v ELSE 0

\* max_price is not None or min_price is not None
Bounded(d) == d.max_price.some \/ d.min_price.some

\* lines 903-915: the price range search of a detected price query d, for the
\* first key of weapon_type_index that occurs in the query
PriceFallbackFor(corrected_query, d) ==
  IF d.is_price_query /\ Bounded(d)
  THEN search_by_price_range(FirstIn(weapon_keys, corrected_query), d.max_price,
                             OrZero(d.min_price))
  ELSE <<>>

\* lines 860-871: exact matches, else parsed components, else good fuzzy matches
HierarchicalMatches(query, limit) ==
  OrElse(OrElse(exact_match(query), match_by_parsed_components(query)),
         IF query = "" THEN <<>>
         ELSE Firsts(SelectSeq(fuzzy_search(query, limit), LAMBDA m : m[2] > 75)))

\* lines 895-917: the matches found, else the price fallback on the corrected query
HierarchicalResults(results, query_lower, limit) ==
  IF Len(results) > 0 THEN Limit(results, limit)
  ELSE Limit(PriceFallbackFor(correct_spelling(query_lower),
                              detect_price_query(correct_spelling(query_lower))), limit)

\* hierarchical_search(query, limit); limit 0 is None
hierarchical_search(query, limit) ==
  HierarchicalResults(ResultsOf(HierarchicalMatches(Strip(Lower(query)), limit), 100),
                      Strip(Lower(query)), limit)
search_weapon_names ==
  << <<"ak-47", <<"ak47", "ak-47", "ak">> >>,
     <<"m4a4", <<"m4a4">> >>,
     <<"m4a1-s", <<"m4a1s", "m4a1-s", "m4a1">> >>,
     <<"awp", <<"awp">> >>,
     <<"desert eagle", <<"deagle", "desert eagle", "eagle">> >>,
     <<"glock-18", <<"glock", "glock-18", "glock18">> >>,
     <<"usp-s", <<"usp-s", "usps", "usp">> >>,
     <<"p250", <<"p250">> >>,
     <<"knife", <<"knife", "knives">> >>,
     <<"karambit", <<"karambit">> >> >>

clean_terms ==
  << "price", "cost", "value", "how much", "cheapest", "expensive",
     "stattrak~", "stattrak", "stat trak", "stat-trak", "stattrack", "st" >>

\* lines 952-989: what search derives from the corrected query, w being the
\* detected entry of weapon_names; the skin name is the query without the
\* aliases of weapon w and the clean terms (lines 979-989)
SearchContext(query) ==
  LET w == FirstEntry(search_weapon_names, query)
  IN [query |-> query,
      d |-> detect_price_query(query),
      detected_weapon |-> KeyOf(search_weapon_names, w),
      is_stattrak |-> AnyIn(stattrak_terms, query),
      skin_name |->
        IF w = 0 THEN ""
        ELSE Strip(ReplaceAll(ReplaceAll(query, search_weapon_names[w][2], 1),
                              clean_terms, 1))]

\* the results whose item is a StatTrak item, if StatTrak was asked for
Filtered(is_stattrak, rs) ==
  IF is_stattrak THEN SelectSeq(rs, LAMBDA r : IsStatTrakName(Lower(r.item_name))) ELSE rs

\* lines 1019-1037 and 1055-1073: the result dictionaries of all items
AllItems(is_stattrak) ==
  ResultsOf(IF is_stattrak THEN StatTrakOnly(item_names) ELSE item_names, -1)

\* Case 1, lines 994-1006: a price range query
Case1(c) ==
  IF c.d.is_price_query /\ Bounded(c.d)
  THEN Filtered(c.is_stattrak,
                search_by_price_range(c.detected_weapon, c.d.max_price, OrZero(c.d.min_price)))
  ELSE <<>>

\* Case 2, lines 1009-1042: a cheapest query
Case2(c) ==
  IF ~AnyIn(<<"cheapest", "lowest price", "least expensive">>, c.query) THEN <<>>
  ELSE IF c.detected_weapon # ""
  THEN Filtered(c.is_stattrak, search_cheapest_by_weapon(c.detected_weapon, 25))
  ELSE Take(SortBy(AllItems(c.is_stattrak), PriceAsc), 25)

\* Case 2.5, lines 1045-1078: a most expensive query
Case2_5(c) ==
  IF ~AnyIn(<<"most expensive", "highest price", "priciest">>, c.query) THEN <<>>
  ELSE IF c.detected_weapon # ""
  THEN Filtered(c.is_stattrak, search_most_expensive_by_weapon(c.detected_weapon, 25))
  ELSE Take(SortBy(AllItems(c.is_stattrak), PriceDesc), 25)

\* results.sort(key=lambda x: -fuzz.partial_ratio(skin_name, x['item_name'].lower()))
BySkinMatch(rs, skin_name) ==
  Firsts(SortBy([k \in 1..Len(rs) |->
                   <<rs[k], Fz(TRUE, skin_name, Lower(rs[k].item_name))>>], ScoreDesc))

\* Case 3, lines 1081-1112: a weapon and a skin name
Case3(c, limit) ==
  IF c.detected_weapon = "" \/ c.skin_name = "" THEN <<>>
  ELSE Limit(BySkinMatch(ResultsOf(PreferStatTrak(c.is_stattrak,
                            search_by_weapon_and_skin(c.detected_weapon, c.skin_name)),
                          -1), c.skin_name), limit)

\* Case 4, lines 1115-1158: a weapon without a skin name; results.sort by
\* min_price for a price query, else by item name
Case4(c, limit) ==
  LET ByPriceOrName(rs) ==
        IF c.d.is_price_query THEN SortBy(rs, PriceAsc) ELSE SortBy(rs, LAMBDA x, y : StrLess(x.item_name, y.item_name))
  IN IF c.detected_weapon = "" \/ c.skin_name # "" THEN <<>>
     ELSE OrElse(IF c.d.is_price_query
                 THEN Filtered(c.is_stattrak,
                               search_cheapest_by_weapon(c.detected_weapon, limit))
                 ELSE <<>>,
                 Limit(ByPriceOrName(ResultsOf(PreferStatTrak(c.is_stattrak,
                                                 IndexGet(Lower(c.detected_weapon))),
                                               -1)), limit))

\* Case 5, lines 1161-1190: exact match; results.sort by min_price for a price query
Case5(c, limit) ==
  LET ByPriceIf(rs) == IF c.d.is_price_query THEN SortBy(rs, PriceAsc) ELSE rs
  IN Limit(ByPriceIf(ResultsOf(PreferStatTrak(c.is_stattrak, exact_match(c.query)), -1)),
           limit)

\* Case 6, lines 1193-1226: fuzzy search; the StatTrak fuzzy results if any,
\* StatTrak being asked for (lines 1197-1202), their result dictionaries with
\* their scores (lines 1204-1218), sorted (lines 1221-1224)
Case6(c, limit) ==
  LET PreferStatTrakFuzzy(fuzzy_results, stattrak_fuzzy) ==
        IF c.is_stattrak /\ Len(stattrak_fuzzy) > 0 THEN stattrak_fuzzy ELSE fuzzy_results
      ScoredResults(ok) == List([k \in 1..Len(ok) |-> ResultOf(ok[k][1], ok[k][2])])
      FuzzyResults(fuzzy_results) ==
        ScoredResults(
          SelectSeq(PreferStatTrakFuzzy(fuzzy_results,
                      SelectSeq(fuzzy_results, LAMBDA m : IsStatTrakName(Lower(m[1])))),
                    LAMBDA m : ~Raises(m[1])))
      ByPriceOrScore(rs) ==
        IF c.d.is_price_query THEN SortBy(rs, PriceAsc) ELSE SortBy(rs, LAMBDA x, y : x.match_score > y.match_score)
  IN Limit(ByPriceOrScore(FuzzyResults(fuzzy_search(c.query,
                                                    IF limit # 0 THEN limit ELSE 20))),
           limit)

\* the cases in order: each returns only a non-empty result
Cases(c, limit) ==
  OrElse(Case1(c),
  OrElse(Case2(c),
  OrElse(Case2_5(c),
  OrElse(Case3(c, limit),
  OrElse(Case4(c, limit),
  OrElse(Case5(c, limit), Case6(c, limit)))))))

\* search, lines 943-1226: the strategy cases tried after (or instead of) the
\* hierarchical search
search_cases(query, limit) ==
  Cases(SearchContext(correct_spelling(Strip(Lower(query)))), limit)

\* self._from_hierarchical after a call of search that found it as flag
\* ("unset": getattr(self, '_from_hierarchical', False) gives False)
FlagAfter(flag) == IF flag = "True" THEN "False" ELSE "True"

\* self._from_hierarchical after n calls of search
FlagAfterCalls(flag, n) ==
  IF n = 0 THEN flag ELSE IF n % 2 = 1 THEN FlagAfter(flag) ELSE FlagAfter(FlagAfter(flag))

\* search(query, limit) called when self._from_hierarchical is flag: the result
search(query, limit, flag) ==
  OrElse(IF flag = "True" THEN <<>> ELSE hierarchical_search(query, limit),
         search_cases(query, limit))

format_weapon_names ==
  << "ak-47", "m4a4", "m4a1-s", "awp", "desert eagle", "glock-18", "usp-s", "p250",
     "knife", "karambit" >>

\* lines 1239-1282: what format_search_results detects in the query; the
\* detected weapon is upper-cased by w.upper() ("" is None)
FormatContext(query_lower, d) ==
  LET Recased(w) == RecaseRange(w, 1, Len(w), LowerAlpha, UpperAlpha)
      FormatWeapon ==
        Recased(PatternAt(format_weapon_names,
                FirstOr({k \in 1..Len(format_weapon_names) :
                           \/ Contains(query_lower, format_weapon_names[k])
                           \/ Contains(query_lower, Replace(format_weapon_names[k], "-", ""))},
                        0)))
  IN
  [query_lower |-> query_lower,
   d |-> d,
   is_stattrak |-> AnyIn(stattrak_terms, query_lower),
   detected_wear |-> KeyOf(wear_conditions, FirstEntry(wear_conditions, query_lower)),
   detected_skin |-> FirstIn(skin_patterns, query_lower),
   detected_weapon |-> FormatWeapon]

NoHighlight == [kind |-> "none", item_name |-> "", min_price |-> 0]

\* lines 1368-1381: the price-related item summary of a non-empty result list,
\* the line "The <kind> ... skin is <item_name> at $<min_price>"; the cheapest
\* is min(results, key=lambda x: x['min_price']), the first of least price
Highlight(results, c) ==
  LET HighlightOf(kind, item) ==
        [kind |-> kind, item_name |-> item.item_name, min_price |-> item.min_price]
      MinByPrice ==
        results[MinOf({k \in 1..Len(results) :
                         \A j \in 1..Len(results) :
                            results[k].min_price <= results[j].min_price})]
  IN IF AnyIn(<<"most expensive", "highest price", "priciest">>, c.query_lower)
     THEN HighlightOf("most expensive", results[1])
     ELSE IF \/ Contains(c.query_lower, "cheapest")
             \/ Contains(c.query_lower, "lowest price")
             \/ c.d.is_price_query
     THEN HighlightOf("cheapest", MinByPrice)
     ELSE NoHighlight

\* the report of format_search_results by its parts: kind is "alternatives" (the
\* note and up to 3 alternatives), "unavailable" (the StatTrak item message),
\* "not_found" (the couldn't-find message), "report" (header, highlight line,
\* narrowing note when limited, one entry per item) or "TypeError" (raised)
Report(kind, results, c, highlight, is_limited) ==
  [kind |-> kind, items |-> results, count |-> Len(results), is_stattrak |-> c.is_stattrak,
   detected_weapon |-> c.detected_weapon, max_price |-> c.d.max_price,
   min_price |-> c.d.min_price, highlight |-> highlight, is_limited |-> is_limited]

\* lines 1287-1302: the searches for alternatives in order, with the queries
\* of lines 1292 and 1299, each finding the flag the one before left; the
\* non-StatTrak search is made when the others found nothing; the collected
\* results and the number of calls of search
Alternatives(c, wears, flag) ==
  LET AltQuery(k) ==
        IF k <= Len(wears)
        THEN "stattrak " \o c.detected_weapon \o " " \o c.detected_skin \o " " \o wears[k]
        ELSE c.detected_weapon \o " " \o c.detected_skin \o " " \o c.detected_wear
      AltResults(alternate_results, by, n) ==
        IF Len(alternate_results) > 0 THEN [results |-> alternate_results, searches |-> n]
        ELSE [results |-> by[n + 1], searches |-> n + 1]
      Collected(by) == AltResults(by[1] \o by[2] \o by[3] \o by[4], by, 4)
  IN Collected([k \in 1..(Len(wears) + 1) |->
                  search(AltQuery(k), 3, FlagAfterCalls(flag, k - 1))])

\* lines 1286-1410: the alternatives in the wear conditions other than the
\* detected one, or the message that the item is
\* unavailable (lines 1305-1341), for an empty result of a specific query
\* (detected_weapon and detected_skin and detected_wear and is_stattrak); the
\* couldn't-find message; or the report (lines 1344-1410), where formatting
\* None as a price raises TypeError
FormatWith(results, c, flag) ==
  LET FormatAlternatives(alt) ==
        [out |-> IF Len(alt.results) > 0
                 THEN Report("alternatives", Take(alt.results, 3), c, NoHighlight, FALSE)
                 ELSE Report("unavailable", <<>>, c, NoHighlight, FALSE),
         flag |-> FlagAfterCalls(flag, alt.searches)]
      FormatReport(is_limited) ==
        [out |-> IF is_limited /\ ~c.d.max_price.some
                 THEN Report("TypeError", <<>>, c, NoHighlight, TRUE)
                 ELSE Report("report", results, c, Highlight(results, c), is_limited),
         flag |-> flag]
      OtherWears == Firsts(SelectSeq(wear_conditions, LAMBDA e : e[1] # c.detected_wear))
      Specific ==
        c.detected_weapon # "" /\ c.detected_skin # "" /\ c.detected_wear # ""
          /\ c.is_stattrak
  IN IF Len(results) = 0 /\ Specific
     THEN FormatAlternatives(Alternatives(c, OtherWears, flag))
     ELSE IF Len(results) = 0
     THEN [out |-> Report("not_found", <<>>, c, NoHighlight, FALSE), flag |-> flag]
     ELSE FormatReport(c.d.is_price_query /\ Bounded(c.d) /\ Len(results) = 15)

\* format_search_results(results, query) called when self._from_hierarchical is
\* flag: the report and the flag it leaves
format_search_results(results, query, flag) ==
  FormatWith(results, FormatContext(Lower(query), detect_price_query(query)), flag)

(***************************************************************************)
(* The engine in use: callers search the catalog and format what they got  *)
(***************************************************************************)
\* the snapshot the engine is constructed from (prices in thousandths of a dollar)
Catalog ==
  << [market_hash_name |-> "AK-47 | Redline (Field-Tested)", min_price |-> Num(5000),
      max_price |-> Num(9000), suggested_price |-> Num(6000), quantity |-> 3],
     [market_hash_name |-> "StatTrak~ AK-47 | Slate (Minimal Wear)", min_price |-> Num(12500),
      max_price |-> Num(15000), suggested_price |-> Num(13000), quantity |-> 1],
     [market_hash_name |-> "AK-47 | Slate (Minimal Wear)", min_price |-> Num(3250),
      max_price |-> Num(4000), suggested_price |-> Num(3500), quantity |-> 2],
     [market_hash_name |-> "AK-47 | Safari Mesh (Battle-Scarred)", min_price |-> Absent,
      max_price |-> Num(1000), suggested_price |-> Num(1000), quantity |-> 7],
     [market_hash_name |-> "StatTrak~ AK-47 | Safari Mesh (Battle-Scarred)", min_price |-> Null,
      max_price |-> Num(2000), suggested_price |-> Num(2000), quantity |-> 1],
     [market_hash_name |-> "P250 | Sand Dune (Field-Tested)", min_price |-> Num(500),
      max_price |-> Num(750), suggested_price |-> Num(600), quantity |-> 9] >>

\* the queries callers send
Queries ==
  { "AK-47 | Slate (Minimal Wear)", "cheapest AK-47", "most expensive AK-47",
    "AK-47 under $10", "between $0 and $10" }

\* the limits callers pass to search (10 is the default)
Limits == {10}

\* the number of calls a behaviour records
MaxCalls == 3

\* the catalog fields, which no operation assigns after construction
catalog == << items, item_names, item_names_lower, weapon_type_index,
              stattrak_items, non_stattrak_items, stattrak_mapping >>

\* the engine after get_skin_search_engine() constructed it from the snapshot
Init ==
  /\ load_data(Catalog)
  /\ from_hierarchical = "unset"
  /\ loading = Idle
  /\ semantic = NoSemantic
  /\ calls = <<>>

\* a caller calls search(query, limit)
Search(query, limit) ==
  /\ Len(calls) < MaxCalls
  /\ calls' = Append(calls, [op |-> "search", query |-> query, limit |-> limit,
                             out |-> search(query, limit, from_hierarchical)])
  /\ from_hierarchical' = FlagAfter(from_hierarchical)
  /\ UNCHANGED <<catalog, loading, semantic>>

\* a caller formats the results search just returned for its query: the call
\* of format_search_results on what the last call returned
Format ==
  LET Formatted(last, f) ==
        /\ calls' = Append(calls, [op |-> "format_search_results", query |-> last.query,
                                   limit |-> last.limit, out |-> f.out])
        /\ from_hierarchical' = f.flag
  IN /\ Len(calls) < MaxCalls
     /\ Len(calls) > 0
     /\ calls[Len(calls)].op = "search"
     /\ Formatted(calls[Len(calls)],
                  format_search_results(calls[Len(calls)].out, calls[Len(calls)].query,
                                        from_hierarchical))
     /\ UNCHANGED <<catalog, loading, semantic>>

Next ==
  \/ \E query \in Queries, limit \in Limits : Search(query, limit)
  \/ Format

Spec == Init /\ [][Next]_vars

(***************************************************************************)
(* Direct calls of the price operations of the engine                      *)
(***************************************************************************)
\* the weapon types, price bounds (thousandths of a dollar) and limits that
\* callers pass to the price operations
PriceWeapons == {"", "ak-47"}
IndexWeapons == {"ak-47", "p250"}
MaxPrices == {NoneP, Some(10000)}
MinPrices == {0, 1000}
ShortLimits == {1, 5}

\* the number of calls a behaviour of the direct and pure specifications records
MaxPureCalls == 2

\* a caller calls search_by_price_range(weapon_type, max_price, min_price)
PriceRange(weapon_type, max_price, min_price) ==
  /\ Len(calls) < MaxPureCalls
  /\ calls' = Append(calls, [op |-> "search_by_price_range", weapon_type |-> weapon_type,
                             max_price |-> max_price, min_price |-> min_price,
                             out |-> search_by_price_range(weapon_type, max_price, min_price)])
  /\ UNCHANGED <<catalog, from_hierarchical, loading, semantic>>

\* a caller calls search_cheapest_by_weapon(weapon_type, limit); line 391
\* raises KeyError for an indexed name that self.items does not hold
Cheapest(weapon_type, limit) ==
  /\ Len(calls) < MaxPureCalls
  /\ calls' = Append(calls, [op |-> "search_cheapest_by_weapon", weapon_type |-> weapon_type,
                             limit |-> limit,
                             out |-> IF \E k \in 1..Len(IndexGet(weapon_type)) :
                                          IndexGet(weapon_type)[k] \notin DOMAIN items
                                     THEN "KeyError"
                                     ELSE search_cheapest_by_weapon(weapon_type, limit)])
  /\ UNCHANGED <<catalog, from_hierarchical, loading, semantic>>

\* a caller calls search_most_expensive_by_weapon(weapon_type, limit)
MostExpensive(weapon_type, limit) ==
  /\ Len(calls) < MaxPureCalls
  /\ calls' = Append(calls, [op |-> "search_most_expensive_by_weapon",
                             weapon_type |-> weapon_type, limit |-> limit,
                             out |-> search_most_expensive_by_weapon(weapon_type, limit)])
  /\ UNCHANGED <<catalog, from_hierarchical, loading, semantic>>

NextDirect ==
  \/ \E weapon_type \in PriceWeapons, max_price \in MaxPrices, min_price \in MinPrices :
       PriceRange(weapon_type, max_price, min_price)
  \/ \E weapon_type \in IndexWeapons, limit \in ShortLimits : Cheapest(weapon_type, limit)
  \/ \E weapon_type \in IndexWeapons, limit \in ShortLimits : MostExpensive(weapon_type, limit)

SpecDirect == Init /\ [][NextDirect]_vars

(***************************************************************************)
(* Calls of detect_price_query                                             *)
(***************************************************************************)
\* the queries whose price intent is detected
PriceQueries ==
  { "between $5 and $10", "ak-47 under $10", "awp over 100", "ak-47 no more than 50",
    "knife no less than 20", "over 5 under 10", "ak-47 price", "p250 price",
    "cheapest ak-47", "most expensive awp", "ak-47 redline", "$7.50" }

\* a caller calls detect_price_query(query)
Detect(query) ==
  /\ Len(calls) < MaxPureCalls
  /\ calls' = Append(calls, [op |-> "detect_price_query", query |-> query,
                             out |-> detect_price_query(query)])
  /\ UNCHANGED <<catalog, from_hierarchical, loading, semantic>>

NextDetect == \E query \in PriceQueries : Detect(query)

SpecDetect == Init /\ [][NextDetect]_vars

(***************************************************************************)
(* Calls of the query normalization                                        *)
(***************************************************************************)
\* the queries that are normalized
SpellingQueries ==
  { "st ak-47 redline", "stattrak ak-47", "stat trak awp", "cheapest ak-47",
    "most expensive awp", "ak-47 redline field-tested", "beast", "damascus",
    "rust coat", "doplar", "ak-47 redline", "karambit fade", "stattrak",
    "glock-18 fade", "ak fade factory new" }

\* a caller calls _correct_spelling(query)
CorrectSpelling(query) ==
  /\ Len(calls) < MaxPureCalls
  /\ calls' = Append(calls, [op |-> "correct_spelling", query |-> query,
                             out |-> correct_spelling(query)])
  /\ UNCHANGED <<catalog, from_hierarchical, loading, semantic>>

\* a caller normalizes again the query that _correct_spelling just returned
Renormalize ==
  /\ Len(calls) < MaxPureCalls
  /\ Len(calls) > 0
  /\ calls[Len(calls)].op = "correct_spelling"
  /\ calls' = Append(calls, [op |-> "correct_spelling", query |-> calls[Len(calls)].out,
                             out |-> correct_spelling(calls[Len(calls)].out)])
  /\ UNCHANGED <<catalog, from_hierarchical, loading, semantic>>

\* _match_by_parsed_components(query_lower) extracts the components of a query
ParseComponents(query) ==
  /\ Len(calls) < MaxPureCalls
  /\ calls' = Append(calls, [op |-> "parsed_components", query |-> query,
                             out |-> parsed_components(query),
                             matches |-> match_by_parsed_components(query)])
  /\ UNCHANGED <<catalog, from_hierarchical, loading, semantic>>

NextNorm ==
  \/ \E query \in SpellingQueries : CorrectSpelling(query)
  \/ Renormalize
  \/ \E query \in SpellingQueries : ParseComponents(query)

SpecNorm == Init /\ [][NextNorm]_vars

(***************************************************************************)
(* The life of the engine: construction from a data file, and reloads      *)
(***************************************************************************)
\* a second snapshot: an item that names two weapon types, an item that
\* names none, two records of one name, and a StatTrak item whose plain
\* version is not in the snapshot
Knives ==
  << [market_hash_name |-> "Butterfly Knife | Fade (Factory New)", min_price |-> Num(900000),
      max_price |-> Num(950000), suggested_price |-> Num(920000), quantity |-> 1],
     [market_hash_name |-> "Sealed Graffiti | GGWP", min_price |-> Num(50),
      max_price |-> Num(60), suggested_price |-> Num(55), quantity |-> 40],
     [market_hash_name |-> "AK-47 | Redline (Field-Tested)", min_price |-> Num(5500),
      max_price |-> Num(9000), suggested_price |-> Num(6000), quantity |-> 3],
     [market_hash_name |-> "AK-47 | Redline (Field-Tested)", min_price |-> Num(5600),
      max_price |-> Num(9100), suggested_price |-> Num(6100), quantity |-> 2],
     [market_hash_name |-> "StatTrak~ M4A4 | Howl (Factory New)", min_price |-> Num(800000),
      max_price |-> Num(850000), suggested_price |-> Num(820000), quantity |-> 1] >>

\* the data files: a JSON list of item records, no file, a file that is not
\* JSON, a JSON list of records without market_hash_name
Files ==
  { [state |-> "ok", data |-> Catalog], [state |-> "ok", data |-> Knives],
    [state |-> "missing", data |-> <<>>], [state |-> "not_json", data |-> <<>>],
    [state |-> "no_names", data |-> <<>>] }

\* the number of calls of load_data on the live engine
MaxReloads == 1

\* get_skin_search_engine(data_path) of search_utils_simplified: the engine
\* loaded from the file or, when the constructor raised (open, json.load or
\* line 41 did), SimpleSkinSearchEngine() without data, which has no StatTrak
\* attributes (they read as empty here; no operation reads them when
\* item_names is empty)
get_skin_search_engine(file) ==
  IF file.state = "ok" THEN load_data(file.data)
  ELSE /\ items = <<>>
       /\ item_names = <<>>
       /\ item_names_lower = <<>>
       /\ weapon_type_index = <<>>
       /\ stattrak_items = <<>>
       /\ non_stattrak_items = <<>>
       /\ stattrak_mapping = <<>>

\* the engine that get_skin_search_engine returned for one of the data files
InitLoad ==
  /\ \E file \in Files : get_skin_search_engine(file)
  /\ from_hierarchical = "unset"
  /\ loading = Idle
  /\ semantic = NoSemantic
  /\ calls = <<>>

\* load_data(data_path) is called on the live engine, lines 35-47: the file is
\* read and self.items is assigned; reading a file that is missing, is not
\* JSON or holds records without names raises before anything is assigned
LoadItems(file) ==
  /\ loading.pc = "idle"
  /\ Cardinality({i \in 1..Len(calls) : calls[i].op = "load_data"}) < MaxReloads
  /\ IF file.state = "ok"
     THEN /\ items' = SnapshotItems(file.data)
          /\ loading' = [pc |-> "names", data |-> file.data]
          /\ calls' = Append(calls, [op |-> "load_data", out |-> "None"])
     ELSE /\ calls' = Append(calls, [op |-> "load_data", out |-> "raises"])
          /\ UNCHANGED <<items, loading>>
  /\ UNCHANGED <<item_names, item_names_lower, weapon_type_index, stattrak_items,
                 non_stattrak_items, stattrak_mapping, from_hierarchical, semantic>>

\* load_data, lines 50-51: the name lists are assigned from the keys of self.items
LoadNames ==
  /\ loading.pc = "names"
  /\ item_names' = SnapshotNames(loading.data)
  /\ item_names_lower' = [k \in 1..Len(SnapshotNames(loading.data)) |->
                            Lower(SnapshotNames(loading.data)[k])]
  /\ loading' = [loading EXCEPT !.pc = "weapon_index"]
  /\ UNCHANGED <<items, weapon_type_index, stattrak_items, non_stattrak_items,
                 stattrak_mapping, from_hierarchical, calls, semantic>>

\* load_data, line 54: _build_weapon_index()
LoadWeaponIndex ==
  /\ loading.pc = "weapon_index"
  /\ weapon_type_index' = build_weapon_index(item_names)
  /\ loading' = [loading EXCEPT !.pc = "stattrak_index"]
  /\ UNCHANGED <<items, item_names, item_names_lower, stattrak_items, non_stattrak_items,
                 stattrak_mapping, from_hierarchical, calls, semantic>>

\* load_data, line 57: _build_stattrak_index(), and load_data returns
LoadStatTrakIndex ==
  /\ loading.pc = "stattrak_index"
  /\ stattrak_items' = StatTrakOnly(item_names)
  /\ non_stattrak_items' = SelectSeq(item_names, LAMBDA n : ~IsStatTrakName(Lower(n)))
  /\ stattrak_mapping' = build_stattrak_mapping(item_names)
  /\ loading' = Idle
  /\ UNCHANGED <<items, item_names, item_names_lower, weapon_type_index,
                 from_hierarchical, calls, semantic>>

\* reloads of the live engine, and the price queries of other threads that
\* run between the steps of a reload
SpecLoad ==
  InitLoad /\ [][\/ \E file \in Files : LoadItems(file)
                 \/ LoadNames
                 \/ LoadWeaponIndex
                 \/ LoadStatTrakIndex
                 \/ \E weapon_type \in IndexWeapons, limit \in ShortLimits :
                      Cheapest(weapon_type, limit)]_vars

(***************************************************************************)
(* Reports for empty result lists                                          *)
(***************************************************************************)
\* the queries whose empty result list is formatted
EmptyQueries ==
  { "stattrak karambit fade factory new", "stattrak ak-47 safari mesh factory new",
    "st ak-47 fade fn", "zzz" }

\* a caller calls format_search_results([], query)
FormatEmpty(query) ==
  LET Formatted(f) ==
        /\ calls' = Append(calls, [op |-> "format_search_results", query |-> query,
                                   results |-> <<>>, out |-> f.out])
        /\ from_hierarchical' = f.flag
  IN /\ Len(calls) < MaxPureCalls
     /\ Formatted(format_search_results(<<>>, query, from_hierarchical))
     /\ UNCHANGED <<catalog, loading, semantic>>

\* the engine of one of the data files formats empty result lists, between
\* searches
SpecReport ==
  InitLoad /\ [][\/ \E query \in EmptyQueries : FormatEmpty(query)
                 \/ \E limit \in Limits : Search("zzz", limit)]_vars

(***************************************************************************)
(* Price queries that more items satisfy than a result list holds          *)
(***************************************************************************)
\* the number of items of the large snapshot, one more than the cap of
\* search_by_price_range
ManyItems == 16

\* a snapshot of ManyItems items, priced $1.00, $1.50, $2.00, ...
Many ==
  [k \in 1..ManyItems |->
     [market_hash_name |-> "AWP | Asiimov " \o SubSeq("ABCDEFGHIJKLMNOPQRSTUVWXYZ", k, k),
      min_price |-> Num(500 + 500 * k), max_price |-> Num(1500 + 500 * k),
      suggested_price |-> Num(1000 + 500 * k), quantity |-> 1]]

\* the price queries callers send
CappedQueries == { "under $100", "over $1", "between $1 and $100", "under $3" }

\* the engine after get_skin_search_engine() constructed it from the large snapshot
InitMany ==
  /\ load_data(Many)
  /\ from_hierarchical = "unset"
  /\ loading = Idle
  /\ semantic = NoSemantic
  /\ calls = <<>>

\* callers search the large catalog by price and format what they got
SpecCapped ==
  InitMany /\ [][\/ \E query \in CappedQueries, limit \in Limits : Search(query, limit)
                 \/ Format]_vars

(***************************************************************************)
(* The engine getters when the data file cannot be loaded                  *)
(***************************************************************************)
\* the queries sent to the engine that a getter returned
EngineQueries == { "zzz", "st ak-47 fade fn" }

\* get_skin_search_engine(data_path) of search_utils_fallback, which keeps no
\* instance when the constructor raises: load_data opens the file
\* (FileNotFoundError), parses it (JSONDecodeError) and takes the keys() of
\* what it holds (AttributeError for a JSON list); nothing catches them
FallbackGetEngine(file) ==
  /\ Len(calls) < MaxPureCalls
  /\ calls' = Append(calls, [op |-> "get_skin_search_engine",
                             module |-> "search_utils_fallback", file |-> file.state,
                             out |-> IF file.state = "missing" THEN "FileNotFoundError"
                                     ELSE IF file.state = "not_json" THEN "JSONDecodeError"
                                     ELSE "AttributeError"])
  /\ UNCHANGED <<catalog, from_hierarchical, loading, semantic>>

\* callers get the engine of search_utils_simplified for a data file (InitLoad),
\* search it and format the results, and get the engine of search_utils_fallback
SpecEngine ==
  InitLoad /\ [][\/ \E file \in Files : FallbackGetEngine(file)
                 \/ \E query \in EngineQueries, limit \in Limits : Search(query, limit)
                 \/ Format]_vars

(***************************************************************************)
(* SkinSearchEngine of search_utils: embeddings, their cache, hybrid search *)
(***************************************************************************)
\* the item names of the snapshots that the engine loads
NamesA == << "AK-47 | Redline", "AWP | Asiimov" >>
NamesB == << "AWP | Asiimov", "AK-47 | Redline" >>
NamesC == << "AK-47 | Redline", "AWP | Dragon Lore", "AK-47 | Asiimov" >>
SemanticCatalogs == { NamesA, NamesB, NamesC, <<>> }

\* the cache files found at start: none, one that pickle cannot load, one
\* written for NamesA
CacheFiles ==
  { NoCache, [state |-> "unreadable", item_names |-> <<>>, embeddings |-> <<>>],
    [state |-> "ok", item_names |-> NamesA, embeddings |-> NamesA] }

\* what the attempts of load_model find, in order: the model loads or the
\* SentenceTransformer constructor raises
ModelLoads == { <<"ok">>, <<"fail", "ok">>, <<"fail", "fail">> }

\* what encoding the query and searching the index gives: an exception, or
\* the rows found with their similarity 1/(1 + distance) in thousandths
FaissOutcomes ==
  { [ok |-> FALSE, hits |-> <<>>],
    [ok |-> TRUE, hits |-> << <<0, 600>>, <<1, 400>> >>],
    [ok |-> TRUE, hits |-> << <<1, 900>>, <<0, 800>> >>] }

\* the queries and the top_k of the callers (5 is the default)
SemanticQueries == { "ak-47", "asiimov", "awp asiimov" }
TopKs == { 1, 5 }

\* line 74 with the lists compared as they are, without sorted()
CacheMatchesInOrder(cache, names) == cache.state = "ok" /\ cache.item_names = names

\* lines 68-74: the cache file exists, pickle loads it, and its item names
\* sorted equal the sorted item names of the catalog
CacheMatches(cache, names) ==
  cache.state = "ok" /\ SortBy(cache.item_names, StrLess) = SortBy(names, StrLess)

\* _create_faiss_index: a new index over the embeddings unless there are none
create_faiss_index(s) == IF s.embeddings # <<>> THEN [s EXCEPT !.index = s.embeddings] ELSE s

\* _save_embeddings_cache: the file is written when there are embeddings and items
save_embeddings_cache(s) ==
  IF s.embeddings # <<>> /\ s.item_names # <<>>
  THEN [s EXCEPT !.cache = [state |-> "ok", item_names |-> s.item_names,
                            embeddings |-> s.embeddings],
                 !.written = @ + 1]
  ELSE s

\* _create_or_load_embeddings: the embeddings of a matching cache file, or,
\* for a catalog that is not empty, one search text per item encoded (line 107),
\* indexed and saved
create_or_load_embeddings(s) ==
  IF CacheMatches(s.cache, s.item_names)
  THEN create_faiss_index([s EXCEPT !.embeddings = s.cache.embeddings])
  ELSE IF s.item_names # <<>>
  THEN save_embeddings_cache(
         create_faiss_index([s EXCEPT !.embeddings = s.item_names, !.encoded = @ + 1]))
  ELSE s

\* SkinSearchEngine.load_data, lines 42-63, for a data file with these names
SkinSearchEngine_load_data(s, names) ==
  create_or_load_embeddings([s EXCEPT !.item_names = names])

\* get_skin_search_engine of search_utils, lines 588-622, when no instance
\* exists: SkinSearchEngine(data_path) calls load_model first, which re-raises
\* as RuntimeError (line 539); the except branch of line 617 constructs
\* SkinSearchEngine() without data, whose load_model is the second attempt
\* and is not guarded
SkinSearchEngine_get(s, names, loads) ==
  IF s.model # "None" THEN [engine |-> s, out |-> "engine"]
  ELSE IF loads[1] = "ok"
  THEN [engine |-> SkinSearchEngine_load_data([s EXCEPT !.model = "loaded"], names),
        out |-> "engine"]
  ELSE IF loads[2] = "ok"
  THEN [engine |-> [s EXCEPT !.model = "loaded"], out |-> "engine"]
  ELSE [engine |-> s, out |-> "RuntimeError"]

\* lines 162-175: the score of an item name for the query, 0 for no match
PrefixScore(item_lower, query_lower) ==
  IF StartsWith(item_lower, query_lower) THEN 1000
  ELSE IF Contains(" " \o item_lower \o " ", " " \o query_lower \o " ") THEN 900
  ELSE IF \E k \in 1..Len(Split(item_lower)) : StartsWith(Split(item_lower)[k], query_lower)
  THEN 800
  ELSE 0

\* lines 159-175: prefix_matches, <<item_name, score>> pairs in catalog order
PrefixMatches(names, query_lower) ==
  LET Scored == [k \in 1..Len(names) |-> <<names[k], PrefixScore(Lower(names[k]), query_lower)>>]
  IN SelectSeq(Scored, LAMBDA m : m[2] > 0)

\* lines 184-196: the items of the rows found that are no prefix matches
SemanticResults(names, prefix, hits) ==
  LET InCatalog == SelectSeq(hits, LAMBDA h : h[1] < Len(names))
      Named == [k \in 1..Len(InCatalog) |-> <<names[InCatalog[k][1] + 1], InCatalog[k][2]>>]
  IN SelectSeq(Named, LAMBDA r : \A k \in 1..Len(prefix) : prefix[k][1] # r[1])

\* the pairs with the greater score first
ByScore(pairs) == SortBy(pairs, LAMBDA x, y : x[2] > y[2])

\* semantic_search(query, top_k), lines 143-210, when encoding the query and
\* searching the index has the outcome faiss
SemanticWith(s, prefix, top_k, faiss) ==
  IF s.index = <<>> \/ s.item_names = <<>> THEN <<>>
  ELSE IF Len(prefix) < top_k /\ faiss.ok
  THEN Take(ByScore(prefix \o SemanticResults(s.item_names, prefix,
                                              Take(faiss.hits, MinOf({top_k * 2,
                                                                      Len(s.item_names)})))),
            top_k)
  ELSE Take(prefix, top_k)

semantic_search(s, query, top_k, faiss) ==
  SemanticWith(s, PrefixMatches(s.item_names, Lower(query)), top_k, faiss)

\* lines 232-241: the items that hold a part of a query of several words, a
\* part of 3 characters or more that is no common weapon name
PartMatches(names, parts) ==
  SelectSeq(names, LAMBDA n :
    \E k \in 1..Len(parts) :
      /\ Len(parts[k]) >= 3
      /\ parts[k] \notin {"ak", "m4", "awp", "usp", "p90"}
      /\ Len(parts) > 1
      /\ Contains(Lower(n), parts[k]))

\* lines 228-250: the matches of process.extract, then the part matches that
\* are not among them with the score 70, best first
FuzzyWith(main_results, part_matches, top_k) ==
  LET New == SelectSeq(part_matches,
                       LAMBDA n : \A k \in 1..Len(main_results) : main_results[k][1] # n)
  IN Take(ByScore(main_results \o [k \in 1..Len(New) |-> <<New[k], 70>>]), top_k)

\* SkinSearchEngine.fuzzy_search(query, top_k), lines 212-250
SkinSearchEngine_fuzzy_search(names, query, top_k) ==
  IF names = <<>> THEN <<>>
  ELSE FuzzyWith(extract(query, names, top_k), PartMatches(names, Split(Lower(query))), top_k)

\* scores are kept in ten-thousandths: semantic_weight 0.7 of a score in
\* thousandths, 1 - semantic_weight of a fuzzy score (0-100) as thousandths
SemanticPart(score) == 7 * score
FuzzyPart(score) == 3 * (10 * score)

\* line 292 with the greater of the two contributions in place of their sum
CombinedMax(semantic_part, fuzzy_part) == MaxOf({semantic_part, fuzzy_part})

\* lines 279 and 292: the total score of an item found by both stages is the
\* semantic contribution plus the fuzzy contribution
Combined(semantic_part, fuzzy_part) == semantic_part + fuzzy_part

\* the score that rs gives the item name, 0 when it is not in rs
ScoreIn(rs, name) ==
  IF \E k \in 1..Len(rs) : rs[k][1] = name
  THEN rs[MinOf({k \in 1..Len(rs) : rs[k][1] = name})][2]
  ELSE 0

\* lines 273-300: combined_results, the semantic results first, then the
\* fuzzy results that are new
CombinedResults(semantic_results, fuzzy_results) ==
  LET FromSemantic ==
        [k \in 1..Len(semantic_results) |->
           [item_name |-> semantic_results[k][1],
            semantic_score |-> semantic_results[k][2],
            fuzzy_score |-> 10 * ScoreIn(fuzzy_results, semantic_results[k][1]),
            total_score |->
              IF \E j \in 1..Len(fuzzy_results) : fuzzy_results[j][1] = semantic_results[k][1]
              THEN Combined(SemanticPart(semantic_results[k][2]),
                            FuzzyPart(ScoreIn(fuzzy_results, semantic_results[k][1])))
              ELSE SemanticPart(semantic_results[k][2])]]
      NewFuzzy ==
        SelectSeq(fuzzy_results,
                  LAMBDA f : \A k \in 1..Len(semantic_results) : semantic_results[k][1] # f[1])
  IN FromSemantic \o
     [k \in 1..Len(NewFuzzy) |->
        [item_name |-> NewFuzzy[k][1], semantic_score |-> 0,
         fuzzy_score |-> 10 * NewFuzzy[k][2], total_score |-> FuzzyPart(NewFuzzy[k][2])]]

\* min_score_threshold 0.5 of hybrid_search, in ten-thousandths
min_score_threshold == 5000

\* lines 302-307: the results at or above the threshold, best first, top_k of them
HybridOf(combined, top_k) ==
  Take(SortBy(SelectSeq(combined, LAMBDA r : r.total_score >= min_score_threshold),
              LAMBDA x, y : x.total_score > y.total_score),
       top_k)

\* hybrid_search(query, top_k), lines 252-307
hybrid_search(s, query, top_k, faiss) ==
  HybridOf(CombinedResults(semantic_search(s, query, top_k * 2, faiss),
                           SkinSearchEngine_fuzzy_search(s.item_names, query, top_k * 2)),
           top_k)

\* the process before search_utils.get_skin_search_engine is first called,
\* with one of the cache files on disk; the engine of search_utils_simplified
\* is the one without data
InitSemantic ==
  /\ get_skin_search_engine([state |-> "missing", data |-> <<>>])
  /\ from_hierarchical = "unset"
  /\ loading = Idle
  /\ \E cache \in CacheFiles : semantic = [NoSemantic EXCEPT !.cache = cache]
  /\ calls = <<>>

\* a caller calls search_utils.get_skin_search_engine(data_path)
SemanticGetEngine(names, loads) ==
  /\ Len(calls) < MaxPureCalls
  /\ semantic' = SkinSearchEngine_get(semantic, names, loads).engine
  /\ calls' = Append(calls, [op |-> "get_skin_search_engine", module |-> "search_utils",
                             names |-> names, loads |-> loads, before |-> semantic,
                             after |-> semantic',
                             out |-> SkinSearchEngine_get(semantic, names, loads).out])
  /\ UNCHANGED <<catalog, from_hierarchical, loading>>

\* a caller calls load_data(data_path) on the engine it got
SemanticLoadData(names) ==
  /\ Len(calls) < MaxPureCalls
  /\ semantic.model # "None"
  /\ semantic' = SkinSearchEngine_load_data(semantic, names)
  /\ calls' = Append(calls, [op |-> "load_data", module |-> "search_utils",
                             names |-> names, before |-> semantic, after |-> semantic',
                             out |-> "None"])
  /\ UNCHANGED <<catalog, from_hierarchical, loading>>

\* a caller calls hybrid_search(query, top_k) on the engine it got
HybridSearch(query, top_k, faiss) ==
  /\ Len(calls) < MaxPureCalls
  /\ semantic.model # "None"
  /\ UNCHANGED <<catalog, from_hierarchical, loading, semantic>>
  /\ calls' = Append(calls, [op |-> "hybrid_search", query |-> query, top_k |-> top_k,
                             faiss |-> faiss, before |-> semantic, after |-> semantic',
                             semantic_results |->
                               semantic_search(semantic, query, top_k * 2, faiss),
                             fuzzy_results |->
                               SkinSearchEngine_fuzzy_search(semantic.item_names, query,
                                                             top_k * 2),
                             out |-> hybrid_search(semantic, query, top_k, faiss)])

\* callers get the engine of search_utils, reload it and search it
SpecSemantic ==
  InitSemantic
    /\ [][\/ \E names \in SemanticCatalogs, loads \in ModelLoads :
               SemanticGetEngine(names, loads)
          \/ \E names \in SemanticCatalogs : SemanticLoadData(names)
          \/ \E query \in SemanticQueries, top_k \in TopKs, faiss \in FaissOutcomes :
               HybridSearch(query, top_k, faiss)]_vars

(***************************************************************************)
(* The claims                                                              *)
(***************************************************************************)
\* the sequence of result dictionaries rs is ordered by min_price, ascending
Ascending(rs) == \A k \in 1..(Len(rs) - 1) : rs[k].min_price <= rs[k + 1].min_price
\* the sequence of result dictionaries rs is ordered by min_price, descending
Descending(rs) == \A k \in 1..(Len(rs) - 1) : rs[k].min_price >= rs[k + 1].min_price

\* the snapshot gives the item of this name a min_price that is a number
Priced(name) == items[name].min_price.tag = "num"

\* C1: every item that search_by_price_range(weapon_type, max_price, min_price)
\* returns has a known min_price p (neither absent nor unparseable) with
\* min_price <= p, and p <= max_price unless max_price is None
PriceRangeWithinBoundsAndKnown ==
  \A i \in 1..Len(calls) : calls[i].op = "search_by_price_range" =>
    \A k \in 1..Len(calls[i].out) :
      /\ Priced(calls[i].out[k].item_name)
      /\ calls[i].min_price <= items[calls[i].out[k].item_name].min_price.v
      /\ calls[i].max_price.some =>
           items[calls[i].out[k].item_name].min_price.v <= calls[i].max_price.v

\* C2: every call of search with a query that equals an item's name
\* case-insensitively returns the exact-match item(s) and nothing else
ExactMatchOnly ==
  \A i \in 1..Len(calls) :
    (/\ calls[i].op = "search"
     /\ \E n \in 1..Len(item_names) : item_names_lower[n] = Lower(calls[i].query))
    => /\ Len(calls[i].out) > 0
       /\ \A k \in 1..Len(calls[i].out) :
            Lower(calls[i].out[k].item_name) = Lower(calls[i].query)

\* C3: with the catalog unchanged, two calls of search with the same query and
\* limit return the same result list, whatever calls were made in between
SearchDeterministic ==
  \A i, j \in 1..Len(calls) :
    (/\ calls[i].op = "search" /\ calls[j].op = "search"
     /\ calls[i].query = calls[j].query /\ calls[i].limit = calls[j].limit)
    => calls[i].out = calls[j].out

\* the amount that follows the first occurrence of phrase in q
AmountAfter(q, phrase) == FloatOf(AmountAt(q, Find(q, phrase, 1) + Len(phrase)).cap)
\* the phrases of the under family and of the over family ("less than" and
\* "more than" when no "no" makes them a phrase of the other family)
UnderPhrase(q) ==
  IF Contains(q, "no more than") THEN "no more than"
  ELSE IF Contains(q, "at most") THEN "at most"
  ELSE IF Contains(q, "less than") /\ ~Contains(q, "no less than") THEN "less than"
  ELSE IF Contains(q, "under") THEN "under"
  ELSE ""
OverPhrase(q) ==
  IF Contains(q, "no less than") THEN "no less than"
  ELSE IF Contains(q, "at least") THEN "at least"
  ELSE IF Contains(q, "more than") /\ ~Contains(q, "no more than") THEN "more than"
  ELSE IF Contains(q, "over") THEN "over"
  ELSE ""

\* C4: detect_price_query lets the first family that matches, in the order
\* between, under, over, set the bounds: "between A and B" gives min = A and
\* max = B; otherwise an under-family phrase with X gives max = X and no lower
\* bound; otherwise an over-family phrase with X gives min = X and no upper bound
FirstFamilySetsBounds ==
  \A i \in 1..Len(calls) : calls[i].op = "detect_price_query" =>
    IF Contains(calls[i].query, "between")
    THEN /\ calls[i].out.min_price = Some(AmountAfter(calls[i].query, "between"))
         /\ calls[i].out.max_price = Some(AmountAfter(calls[i].query, "and"))
    ELSE IF UnderPhrase(calls[i].query) # ""
    THEN /\ calls[i].out.max_price =
              Some(AmountAfter(calls[i].query, UnderPhrase(calls[i].query)))
         /\ calls[i].out.min_price = NoneP
    ELSE OverPhrase(calls[i].query) # ""
         => /\ calls[i].out.min_price =
                 Some(AmountAfter(calls[i].query, OverPhrase(calls[i].query)))
            /\ calls[i].out.max_price = NoneP

\* C5: the result of a "between A and B" request, whatever the value of A, is
\* ordered by min_price ascending and has at most 15 items
BetweenAscending ==
  \A i \in 1..Len(calls) :
    (calls[i].op = "search" /\ StartsWith(calls[i].query, "between"))
    => Ascending(calls[i].out) /\ Len(calls[i].out) <= 15

\* the names of the items of a weapon that have a price
PricedOf(weapon_lower) ==
  {item_names[n] : n \in {n \in 1..Len(item_names) :
                            /\ Contains(item_names_lower[n], weapon_lower)
                            /\ Priced(item_names[n])}}

\* the results are the priced items of the weapon, at most 25 of them
PricedResults(rs, weapon_lower) ==
  /\ Len(rs) = MinOf({25, Cardinality(PricedOf(weapon_lower))})
  /\ \A k \in 1..Len(rs) : rs[k].item_name \in PricedOf(weapon_lower)

\* C6: for "cheapest <weapon>" (resp. "most expensive <weapon>") without a
\* StatTrak term, search returns the weapon's priced items by min_price
\* ascending (resp. descending), first the weapon's cheapest (resp. most
\* expensive) item, at most 25 of them, and format_search_results names that
\* first item and its price in the highlight
ExtremumOfWeapon ==
  \A i \in 1..Len(calls) :
    /\ (calls[i].op = "search" /\ StartsWith(calls[i].query, "cheapest "))
       => /\ PricedResults(calls[i].out, Lower(SubSeq(calls[i].query, 10, Len(calls[i].query))))
          /\ Ascending(calls[i].out)
    /\ (calls[i].op = "search" /\ StartsWith(calls[i].query, "most expensive "))
       => /\ PricedResults(calls[i].out, Lower(SubSeq(calls[i].query, 16, Len(calls[i].query))))
          /\ Descending(calls[i].out)
    /\ (/\ calls[i].op = "format_search_results"
        /\ \/ StartsWith(calls[i].query, "cheapest ")
           \/ StartsWith(calls[i].query, "most expensive ")
        /\ Len(calls[i - 1].out) > 0)
       => /\ calls[i].out.kind = "report"
          /\ calls[i].out.highlight.item_name = calls[i - 1].out[1].item_name
          /\ calls[i].out.highlight.min_price = calls[i - 1].out[1].min_price

\* C7: _correct_spelling is idempotent: normalizing the query that it returned
\* returns that query
NormalizeIdempotent ==
  \A i \in 2..Len(calls) :
    (/\ calls[i].op = "correct_spelling" /\ calls[i - 1].op = "correct_spelling"
     /\ calls[i].query = calls[i - 1].out)
    => calls[i].out = calls[i].query

\* a StatTrak synonym is a token of its own in q
StatTrakToken(q) ==
  \E term \in {"stattrak~", "stattrak", "stat trak", "stat-trak", "stattrack", "st"} :
    Contains(" " \o q \o " ", " " \o term \o " ")

\* C8: a query without a StatTrak synonym as a token of its own is not rewritten
\* to the StatTrak marker and does not set the StatTrak flag
StatTrakOnlyAsToken ==
  \A i \in 1..Len(calls) : ~StatTrakToken(calls[i].query) =>
    /\ calls[i].op = "correct_spelling"
       => (Contains(calls[i].out, "stattrak") => Contains(calls[i].query, "stattrak"))
    /\ calls[i].op = "parsed_components" => ~calls[i].out.is_stattrak

\* C9: no item whose min_price is absent or unparseable is in the result of
\* search_cheapest_by_weapon or search_most_expensive_by_weapon
ExtremaOnlyPriced ==
  \A i \in 1..Len(calls) :
    calls[i].op \in {"search_cheapest_by_weapon", "search_most_expensive_by_weapon"}
    => \A k \in 1..Len(calls[i].out) : Priced(calls[i].out[k].item_name)

\* C10: detect_price_query returns no bounds for a query without a price
\* amount: one whose only digits are those of a weapon name
NoAmountNoBounds ==
  \A i \in 1..Len(calls) :
    (/\ calls[i].op = "detect_price_query"
     /\ ~AnyIn(<<"0", "1", "2", "3", "4", "5", "6", "7", "8", "9">>,
               ReplaceAll(calls[i].query, <<"ak-47", "p250">>, 1)))
    => calls[i].out.max_price = NoneP /\ calls[i].out.min_price = NoneP

(***************************************************************************)
(* The weapon index after a load                                           *)
(***************************************************************************)
\* the places in the ordered weapon list of the types whose lower-cased name
\* occurs in lower
MatchingWeapons(lower) == {k \in 1..Len(weapon_keys) : Contains(lower, weapon_keys[k])}

\* the keys of the buckets of weapon_type_index that hold name
BucketsOf(name) ==
  {w \in DOMAIN weapon_type_index :
     \E k \in 1..Len(weapon_type_index[w]) : weapon_type_index[w][k] = name}

\* the places of name in the catalog's load order
PlacesOf(name) == {i \in 1..Len(item_names) : item_names[i] = name}

\* the one bucket an item with the matching places M belongs in, if any
FirstMatchOf(M) == IF M = {} THEN {} ELSE {weapon_keys[MinOf(M)]}

\* C11: after a load, every item name is in at most one bucket of
\* weapon_type_index, the bucket of the first entry of the weapon list whose
\* lower-cased name occurs in the lower-cased item name; an item that matches
\* no entry is in no bucket; a bucket holds catalog names only, each once, in
\* load order
WeaponIndexFirstMatch ==
  loading.pc = "idle" =>
    /\ \A i \in 1..Len(item_names) :
         BucketsOf(item_names[i]) = FirstMatchOf(MatchingWeapons(item_names_lower[i]))
    /\ \A w \in DOMAIN weapon_type_index :
         /\ \A k \in 1..Len(weapon_type_index[w]) : PlacesOf(weapon_type_index[w][k]) # {}
         /\ \A a, b \in 1..Len(weapon_type_index[w]) :
              a < b => MaxOf(PlacesOf(weapon_type_index[w][a]))
                         < MinOf(PlacesOf(weapon_type_index[w][b]))

\* C11 witness: a reload has completed on a catalog with an item that names
\* two weapon types and is filed in one bucket, an item that is in no bucket,
\* and a bucket of two items
WeaponIndexFirstMatchWitness ==
  /\ loading.pc = "idle"
  /\ \E c \in 1..Len(calls) : calls[c].op = "load_data" /\ calls[c].out = "None"
  /\ \E i \in 1..Len(item_names) :
       Cardinality(MatchingWeapons(item_names_lower[i])) > 1
         /\ Cardinality(BucketsOf(item_names[i])) = 1
  /\ \E i \in 1..Len(item_names) : BucketsOf(item_names[i]) = {}

(***************************************************************************)
(* The report for an empty result list                                     *)
(***************************************************************************)
\* the catalog holds an item of the weapon and the skin that the query names:
\* a differently-worn or a non-StatTrak version of the item asked for
RelatedItemExists(query_lower) ==
  \E n \in 1..Len(item_names_lower) :
    /\ Contains(item_names_lower[n], FirstIn(skin_patterns, query_lower))
    /\ \E k \in 1..Len(format_weapon_names) :
         /\ Contains(query_lower, format_weapon_names[k])
         /\ Contains(item_names_lower[n], format_weapon_names[k])

\* C12: for an empty result list format_search_results returns, without
\* raising, either the couldn't-find message or, for a StatTrak
\* weapon+skin+wear query for which differently-worn or non-StatTrak items
\* exist, a note and a list of at most 3 alternatives
EmptyResultsExplained ==
  \A i \in 1..Len(calls) :
    (calls[i].op = "format_search_results" /\ "results" \in DOMAIN calls[i])
    => \/ calls[i].out.kind \in {"not_found", "unavailable"}
       \/ /\ calls[i].out.kind = "alternatives"
          /\ calls[i].out.count \in 1..3
          /\ calls[i].out.is_stattrak
          /\ RelatedItemExists(Lower(calls[i].query))

(***************************************************************************)
(* The report for a capped price-range result                              *)
(***************************************************************************)
\* the names of the priced items whose min_price is within the bounds d
WithinBounds(d) ==
  {item_names[n] : n \in {n \in 1..Len(item_names) :
     /\ Priced(item_names[n])
     /\ d.min_price.some => d.min_price.v <= items[item_names[n]].min_price.v
     /\ d.max_price.some => items[item_names[n]].min_price.v <= d.max_price.v}}

\* the result list rs of a price query with the bounds d holds items within
\* the bounds only, and fewer of them than the catalog has: a cap cut it
Capped(rs, d) ==
  /\ d.is_price_query
  /\ d.min_price.some \/ d.max_price.some
  /\ \A k \in 1..Len(rs) : rs[k].item_name \in WithinBounds(d)
  /\ Len(rs) < Cardinality(WithinBounds(d))

\* C13: whenever a result cap cut the result list of a price-range query, of
\* an under-, over- or between-query and on either search path, the report of
\* format_search_results holds the suggestion to narrow the query
CappedResultSuggestsNarrowing ==
  \A i \in 2..Len(calls) :
    (/\ calls[i].op = "format_search_results"
     /\ "results" \notin DOMAIN calls[i]
     /\ Capped(calls[i - 1].out, detect_price_query(calls[i].query)))
    => calls[i].out.kind = "report" /\ calls[i].out.is_limited

(***************************************************************************)
(* The engine getters never raise                                          *)
(***************************************************************************)
\* C14: get_skin_search_engine never raises to its caller, and on the engine
\* with an empty catalog that it returns for a missing, unreadable or invalid
\* file, search returns an empty list and format_search_results the
\* explanatory message
GetEngineNeverRaises ==
  \A i \in 1..Len(calls) :
    /\ calls[i].op = "get_skin_search_engine" => calls[i].out = "engine"
    /\ (item_names = <<>> /\ calls[i].op = "search") => calls[i].out = <<>>
    /\ (item_names = <<>> /\ calls[i].op = "format_search_results")
       => calls[i].out.kind \in {"not_found", "unavailable"}

(***************************************************************************)
(* Failures of the semantic stage                                          *)
(***************************************************************************)
\* C15: a failure of the semantic stage never reaches the caller: whether or
\* not the embedding model loads, get_skin_search_engine of search_utils
\* returns an engine, and when encoding the query or searching the index
\* fails, hybrid_search returns results of the lexical stages only (prefix
\* matches, scored 1.0, 0.9 or 0.8, and fuzzy matches)
SemanticFailureContained ==
  \A i \in 1..Len(calls) :
    /\ (calls[i].op = "get_skin_search_engine" /\ calls[i].module = "search_utils")
       => calls[i].out = "engine"
    /\ (calls[i].op = "hybrid_search" /\ ~calls[i].faiss.ok)
       => \A k \in 1..Len(calls[i].out) :
            /\ calls[i].out[k].semantic_score \in {0, 800, 900, 1000}
            /\ calls[i].out[k].semantic_score = 0 => calls[i].out[k].fuzzy_score > 0

(***************************************************************************)
(* Malformed records                                                       *)
(***************************************************************************)
\* the record of the item gives min_price, max_price and suggested_price as numbers
WellFormed(name) ==
  /\ items[name].min_price.tag = "num"
  /\ items[name].max_price.tag = "num"
  /\ items[name].suggested_price.tag = "num"

\* the names of the well-formed items of the weapon type ("" for any) whose
\* min_price is within the bounds
Satisfying(weapon_type, max_price, min_price) ==
  {item_names[n] : n \in {n \in 1..Len(item_names) :
     /\ WellFormed(item_names[n])
     /\ Contains(item_names_lower[n], weapon_type)
     /\ min_price <= items[item_names[n]].min_price.v
     /\ max_price.some => items[item_names[n]].min_price.v <= max_price.v}}

\* C16: an item whose record lacks min_price, max_price or suggested_price, or
\* has null or a non-number there, is not in the result of
\* search_by_price_range, and every other item that satisfies the query is
\* (up to the cap of 15); nothing is raised
MalformedRecordRemovesItemOnly ==
  \A i \in 1..Len(calls) : calls[i].op = "search_by_price_range" =>
    /\ \A k \in 1..Len(calls[i].out) : WellFormed(calls[i].out[k].item_name)
    /\ Cardinality(Satisfying(calls[i].weapon_type, calls[i].max_price, calls[i].min_price)) <= 15
       => \A name \in Satisfying(calls[i].weapon_type, calls[i].max_price, calls[i].min_price) :
            \E k \in 1..Len(calls[i].out) : calls[i].out[k].item_name = name

(***************************************************************************)
(* Queries during a reload                                                 *)
(***************************************************************************)
\* C17: whatever a query can observe is one whole catalog: the name list is
\* the list of the keys of items, every name of an index bucket is a key of
\* items, and no call of search_cheapest_by_weapon fails looking up an indexed
\* name in items
ReloadIsAtomic ==
  /\ {item_names[n] : n \in 1..Len(item_names)} = DOMAIN items
  /\ \A w \in DOMAIN weapon_type_index : \A k \in 1..Len(weapon_type_index[w]) :
       weapon_type_index[w][k] \in DOMAIN items
  /\ \A i \in 1..Len(calls) :
       calls[i].op = "search_cheapest_by_weapon" => calls[i].out # "KeyError"

(***************************************************************************)
(* The attributes of the engine under queries                              *)
(***************************************************************************)
\* C18: no call of search or format_search_results changes an attribute of
\* the engine: the catalog, the name lists, the indices and the
\* _from_hierarchical field are after the call what they were before it
EngineIsReadOnly ==
  [][/\ UNCHANGED catalog
     /\ from_hierarchical' = from_hierarchical]_vars

(***************************************************************************)
(* The embeddings cache                                                    *)
(***************************************************************************)
\* the call ran SkinSearchEngine.load_data: a load_data call, or the
\* construction of the instance when the model loaded at the first attempt
RanLoad(c) ==
  \/ c.op = "load_data" /\ c.module = "search_utils"
  \/ /\ c.op = "get_skin_search_engine" /\ c.module = "search_utils"
     /\ c.before.model = "None" /\ c.loads[1] = "ok"

\* the cache file the load found is readable and stores the item-name set of
\* the catalog
SameNames(c) ==
  /\ c.before.cache.state = "ok"
  /\ {c.before.cache.item_names[k] : k \in 1..Len(c.before.cache.item_names)}
       = {c.names[k] : k \in 1..Len(c.names)}

\* the load took the embeddings of the cache file, encoded nothing and wrote nothing
Reused(c) ==
  /\ c.after.embeddings = c.before.cache.embeddings
  /\ c.after.encoded = c.before.encoded
  /\ c.after.written = c.before.written
  /\ c.after.cache = c.before.cache

\* the load encoded the catalog once and wrote the cache file with its names
Recomputed(c) ==
  /\ c.after.encoded = c.before.encoded + 1
  /\ c.after.embeddings = c.names
  /\ c.after.written = c.before.written + 1
  /\ c.after.cache = [state |-> "ok", item_names |-> c.names, embeddings |-> c.names]

\* no hybrid_search call writes the cache file
QueriesLeaveCache ==
  \A i \in 1..Len(calls) : calls[i].op = "hybrid_search" =>
    /\ calls[i].after.cache = calls[i].before.cache
    /\ calls[i].after.written = calls[i].before.written

\* C19 as stated: a load reuses the cached embeddings when the cache file
\* stores the item-name set of the catalog, in any order; every other load
\* recomputes the embeddings and rewrites the cache file with the new names;
\* no query writes the cache
CacheReusedIffSameNames ==
  /\ \A i \in 1..Len(calls) : RanLoad(calls[i]) =>
       IF SameNames(calls[i]) THEN Reused(calls[i]) ELSE Recomputed(calls[i])
  /\ QueriesLeaveCache

\* C19, amended: as above for a catalog that is not empty; a load of an empty
\* catalog that the cache does not match encodes nothing, writes nothing and
\* leaves the embeddings of the engine and the cache file as they were
CacheReusedIffSameNamesUnlessEmpty ==
  /\ \A i \in 1..Len(calls) : RanLoad(calls[i]) =>
       IF SameNames(calls[i]) THEN Reused(calls[i])
       ELSE IF calls[i].names # <<>> THEN Recomputed(calls[i])
       ELSE /\ calls[i].after.encoded = calls[i].before.encoded
            /\ calls[i].after.written = calls[i].before.written
            /\ calls[i].after.cache = calls[i].before.cache
            /\ calls[i].after.embeddings = calls[i].before.embeddings
  /\ QueriesLeaveCache

\* a load reused a cache file that stores the names in another order than the
\* catalog, another load recomputed and rewrote, and a query ran
CacheReusedIffSameNamesWitness ==
  /\ \E i \in 1..Len(calls) :
       /\ RanLoad(calls[i]) /\ SameNames(calls[i]) /\ Reused(calls[i])
       /\ calls[i].before.cache.item_names # calls[i].names
  /\ \E i \in 1..Len(calls) :
       /\ RanLoad(calls[i]) /\ ~SameNames(calls[i])
       /\ calls[i].before.cache.state = "ok" /\ Recomputed(calls[i])

(***************************************************************************)
(* The combined score of hybrid_search                                     *)
(***************************************************************************)
\* the item name is in the <<item_name, score>> pairs rs
FoundIn(rs, name) == \E k \in 1..Len(rs) : rs[k][1] = name

\* the result list has each item once, only items at or above
\* min_score_threshold, best first, at most top_k of them
WellOrdered(out, top_k) ==
  /\ \A j, k \in 1..Len(out) : out[j].item_name = out[k].item_name => j = k
  /\ \A k \in 1..Len(out) : out[k].total_score >= min_score_threshold
  /\ \A j, k \in 1..Len(out) : j < k => out[j].total_score >= out[k].total_score
  /\ Len(out) <= top_k

\* C20: hybrid_search returns each item at most once, at or above
\* min_score_threshold, in descending order of total_score, at most top_k
\* items; an item that both the semantic and the fuzzy stage found has as
\* total_score the larger of its two weighted scores
HybridTakesMaximum ==
  \A i \in 1..Len(calls) : calls[i].op = "hybrid_search" =>
    /\ WellOrdered(calls[i].out, calls[i].top_k)
    /\ \A k \in 1..Len(calls[i].out) :
         (/\ FoundIn(calls[i].semantic_results, calls[i].out[k].item_name)
          /\ FoundIn(calls[i].fuzzy_results, calls[i].out[k].item_name))
         => calls[i].out[k].total_score
              = CombinedMax(SemanticPart(ScoreIn(calls[i].semantic_results,
                                                 calls[i].out[k].item_name)),
                            FuzzyPart(ScoreIn(calls[i].fuzzy_results,
                                              calls[i].out[k].item_name)))

(***************************************************************************)
(* SkinSearchEngineFallback of search_utils_fallback                       *)
(***************************************************************************)
\* _expand_query: the query with the terms added that its words call for
expand_query(query) ==
  LET lower == Lower(query)
      expand_weapon_types == <<"ak-47", "m4a4", "m4a1-s", "awp", "desert eagle", "deagle",
                        "knife", "karambit", "bayonet", "butterfly", "gloves">>
      expand_wear_types == <<"factory new", "fn", "minimal wear", "mw", "field-tested", "ft",
                      "well-worn", "ww", "battle-scarred", "bs">>
      expand_glove_types == <<"sport gloves", "driver gloves", "specialist gloves",
                       "moto gloves", "hand wraps", "bloodhound gloves">>
      expand_skin_terms == <<"fade", "doppler", "tiger", "marble", "slaughter", "crimson",
                      "case hardened", "autotronic", "lore", "gamma", "emerald",
                      "sapphire", "ruby", "rust", "damascus", "ultraviolet", "night",
                      "blue steel", "stained", "forest", "boreal", "safari", "scorched",
                      "urban masked">>
      expanded_terms ==
        (IF Contains(lower, "glove") /\ ~AnyIn(expand_glove_types, lower)
         THEN <<"sport gloves">> ELSE <<>>)
        \o (IF Contains(lower, "fade") /\ ~AnyIn(expand_weapon_types, lower)
            THEN <<"knife">> ELSE <<>>)
        \o (IF Contains(lower, "doppler") /\ ~AnyIn(expand_weapon_types, lower)
            THEN <<"knife">> ELSE <<>>)
        \o (IF AnyIn(expand_skin_terms, lower) /\ ~AnyIn(expand_wear_types, lower)
            THEN <<"factory new">> ELSE <<>>)
  IN IF expanded_terms # <<>> THEN query \o " " \o Join(expanded_terms) ELSE query

\* SkinSearchEngineFallback.fuzzy_search(query, top_k)
Fallback_fuzzy_search(names, query, top_k) ==
  IF names = <<>> THEN <<>> ELSE extract(expand_query(query), names, top_k)

\* SkinSearchEngineFallback.hybrid_search(query, top_k): the fuzzy matches with
\* score / 100 as fuzzy_score (thousandths) and total_score (ten-thousandths)
Fallback_hybrid_search(names, query, top_k) ==
  [k \in 1..Len(Fallback_fuzzy_search(names, query, top_k)) |->
     [item_name |-> Fallback_fuzzy_search(names, query, top_k)[k][1],
      semantic_score |-> 0,
      fuzzy_score |-> 10 * Fallback_fuzzy_search(names, query, top_k)[k][2],
      total_score |-> 100 * Fallback_fuzzy_search(names, query, top_k)[k][2]]]

\* C21: when semantic_search returned nothing, every item that the fallback
\* engine's hybrid_search returns for the same catalog, query and top_k with a
\* fuzzy score of 75 or more is in the result of hybrid_search
HybridKeepsLexicalMatches ==
  \A i \in 1..Len(calls) :
    (calls[i].op = "hybrid_search" /\ calls[i].semantic_results = <<>>) =>
      \A k \in 1..Len(Fallback_hybrid_search(calls[i].before.item_names, calls[i].query,
                                             calls[i].top_k)) :
        Fallback_hybrid_search(calls[i].before.item_names, calls[i].query,
                               calls[i].top_k)[k].total_score >= 7500
        => \E j \in 1..Len(calls[i].out) :
             calls[i].out[j].item_name
               = Fallback_hybrid_search(calls[i].before.item_names, calls[i].query,
                                        calls[i].top_k)[k].item_name

(***************************************************************************)
(* The loaders of the three engines and the two snapshot shapes            *)
(***************************************************************************)
\* the engine classes, the shapes of a data file (a JSON list of item objects
\* with market_hash_name, a JSON object from name to item fields) and the
\* item records that the files hold, in file order
Loaders == { "SimpleSkinSearchEngine", "SkinSearchEngineFallback", "SkinSearchEngine" }
Shapes == { "list", "mapping" }
Snapshots == { Catalog, Knives, <<>> }

\* load_data of the engine class on a file of the shape: the items (the
\* fields of an item that the engines read) and the item_names it builds, or
\* the exception it raises.  A JSON object keeps a repeated key at its first
\* place with its last value, as the dictionary of line 41 does for a list.
\* SkinSearchEngineFallback.load_data has no isinstance test: it assigns the
\* list to self.items and list(self.items.keys()) raises AttributeError.
LoaderLoad(loader, shape, snapshot) ==
  IF loader = "SkinSearchEngineFallback" /\ shape = "list"
  THEN [out |-> "AttributeError", items |-> <<>>, item_names |-> <<>>]
  ELSE [out |-> "None", items |-> SnapshotItems(snapshot),
        item_names |-> SnapshotNames(snapshot)]

\* a caller constructs an engine of the class from a data file
Construct(loader, shape, snapshot) ==
  /\ Len(calls) < MaxPureCalls
  /\ calls' = Append(calls, [op |-> "load_data", class |-> loader, shape |-> shape,
                             snapshot |-> snapshot,
                             out |-> LoaderLoad(loader, shape, snapshot).out,
                             items |-> LoaderLoad(loader, shape, snapshot).items,
                             item_names |-> LoaderLoad(loader, shape, snapshot).item_names])
  /\ UNCHANGED <<catalog, from_hierarchical, loading, semantic>>

\* callers construct engines of the three classes from files of both shapes
SpecLoaders ==
  InitLoad /\ [][\E loader \in Loaders, shape \in Shapes, snapshot \in Snapshots :
                   Construct(loader, shape, snapshot)]_vars

\* C22: every engine class loads a file of either shape without raising, and
\* two loads of the same item records by the same class, whatever the shapes
\* of the files, build the same items and the same item_names
LoadersAcceptBothShapes ==
  /\ \A i \in 1..Len(calls) : calls[i].op = "load_data" => calls[i].out = "None"
  /\ \A i, j \in 1..Len(calls) :
       (/\ calls[i].op = "load_data" /\ calls[j].op = "load_data"
        /\ calls[i].class = calls[j].class /\ calls[i].snapshot = calls[j].snapshot)
       => /\ calls[i].items = calls[j].items
          /\ calls[i].item_names = calls[j].item_names

(***************************************************************************)
(* The StatTrak lists and the StatTrak mapping                             *)
(***************************************************************************)
\* the number of places of the name in the list
Places(names, name) == Cardinality({k \in 1..Len(names) : names[k] = name})

\* C23: after a load every catalog name is once in stattrak_items or once in
\* non_stattrak_items and not in both, and every entry n -> s of
\* stattrak_mapping has n in non_stattrak_items and s in stattrak_items, s being
\* the StatTrak name of n
StatTrakIndexSound ==
  loading.pc = "idle" =>
    /\ \A i \in 1..Len(item_names) :
         Places(stattrak_items, item_names[i]) + Places(non_stattrak_items, item_names[i]) = 1
    /\ \A k \in 1..Len(stattrak_items) : stattrak_items[k] \in DOMAIN items
    /\ \A k \in 1..Len(non_stattrak_items) : non_stattrak_items[k] \in DOMAIN items
    /\ \A n \in DOMAIN stattrak_mapping :
         /\ Places(non_stattrak_items, n) = 1
         /\ Places(stattrak_items, stattrak_mapping[n]) = 1
         /\ NonStName(stattrak_mapping[n]) = n

(***************************************************************************)
(* The items that match the parsed components of a query                   *)
(***************************************************************************)
\* the item name satisfies the components pc: it holds the weapon type, the
\* skin name and the wear condition that were extracted, and names StatTrak
\* when the flag was extracted
Satisfies(name_lower, pc) ==
  /\ pc.is_stattrak => IsStatTrakName(name_lower)
  /\ Contains(name_lower, pc.weapon_type)
  /\ Contains(name_lower, pc.skin_name)
  /\ Contains(name_lower, pc.wear_condition)

\* matches holds, in catalog order and once each, the catalog items that
\* satisfy the components pc
ExactlySatisfying(matches, pc) ==
  /\ \A k \in 1..Len(matches) : matches[k] \in DOMAIN items /\ Satisfies(Lower(matches[k]), pc)
  /\ \A i \in 1..Len(item_names) :
       Satisfies(item_names_lower[i], pc) => \E k \in 1..Len(matches) : matches[k] = item_names[i]
  /\ \A j, k \in 1..Len(matches) : j < k =>
       \E a, b \in 1..Len(item_names) :
         a < b /\ item_names[a] = matches[j] /\ item_names[b] = matches[k]

\* C24 as stated: _match_by_parsed_components returns exactly the catalog
\* items, in catalog order, that satisfy all the components it extracted
ParsedMatchesExact ==
  \A i \in 1..Len(calls) : calls[i].op = "parsed_components" =>
    ExactlySatisfying(calls[i].matches, calls[i].out)

\* C24, amended: as above when a weapon type, a skin name or a wear condition
\* was extracted; when none was (the query is empty or holds StatTrak terms
\* only) the result is empty
ParsedMatchesExactOrSkipped ==
  \A i \in 1..Len(calls) : calls[i].op = "parsed_components" =>
    IF /\ calls[i].out.weapon_type = "" /\ calls[i].out.skin_name = ""
       /\ calls[i].out.wear_condition = ""
    THEN calls[i].matches = <<>>
    ELSE ExactlySatisfying(calls[i].matches, calls[i].out)

\* a query with the StatTrak flag and a weapon type matched some catalog items
\* and not others of the weapon
ParsedMatchesExactWitness ==
  \E i \in 1..Len(calls) :
    /\ calls[i].op = "parsed_components"
    /\ calls[i].out.is_stattrak /\ calls[i].out.weapon_type # ""
    /\ calls[i].matches # <<>>
    /\ \E n \in 1..Len(item_names) :
         /\ Contains(item_names_lower[n], calls[i].out.weapon_type)
         /\ \A k \in 1..Len(calls[i].matches) : calls[i].matches[k] # item_names[n]

(***************************************************************************)
(* The components of a weapon and skin query                               *)
(***************************************************************************)
\* skin texts of queries
SkinTexts == { "redline", "fade" }

\* the query is the alias, the skin text and, when there is one, the wear phrase
IsWeaponSkinQuery(query, alias, skin, wear) ==
  query = alias \o " " \o skin \o (IF wear = "" THEN "" ELSE " " \o wear)

\* the canonical name and the aliases of entry w of an alias table
NamesOf(table, w) == {table[w][1]} \cup {table[w][2][k] : k \in 1..Len(table[w][2])}

\* C25: from a query that is a name or an alias of a weapon, a skin text and
\* optionally a wear phrase, the extracted weapon type is that weapon and the
\* extracted skin name is the skin text
WeaponSkinQueryParsed ==
  \A i \in 1..Len(calls) : calls[i].op = "parsed_components" =>
    \A w \in 1..Len(weapon_names) : \A alias \in NamesOf(weapon_names, w) :
      \A skin \in SkinTexts :
        /\ IsWeaponSkinQuery(calls[i].query, alias, skin, "")
           => /\ calls[i].out.weapon_type = weapon_names[w][1]
              /\ calls[i].out.skin_name = skin
        /\ \A c \in 1..Len(wear_conditions) : \A wear \in NamesOf(wear_conditions, c) :
             IsWeaponSkinQuery(calls[i].query, alias, skin, wear)
             => /\ calls[i].out.weapon_type = weapon_names[w][1]
                /\ calls[i].out.skin_name = skin

(***************************************************************************)
(* Price queries for StatTrak items on a catalog of more than 15 items     *)
(***************************************************************************)
\* the large snapshot with one StatTrak item, the cheapest, at $0.75
Tracked ==
  << [market_hash_name |-> "StatTrak~ AWP | Asiimov Z", min_price |-> Num(750),
      max_price |-> Num(950), suggested_price |-> Num(850), quantity |-> 1] >> \o Many

\* the StatTrak price queries callers send
StatTrakPriceQueries ==
  { "stattrak awp under $100", "stattrak awp under $3", "stattrak awp under $0.90",
    "stattrak awp over $0.50", "stattrak awp between $0.50 and $100" }

\* the engine after get_skin_search_engine() constructed it from that snapshot
InitTracked ==
  /\ load_data(Tracked)
  /\ from_hierarchical = "unset"
  /\ loading = Idle
  /\ semantic = NoSemantic
  /\ calls = <<>>

\* callers search that catalog for StatTrak items by price
SpecTracked ==
  InitTracked
    /\ [][\E query \in StatTrakPriceQueries, limit \in Limits : Search(query, limit)]_vars

\* C26: when a StatTrak item of the catalog has its min_price within the
\* bounds of a StatTrak price-range query, search returns at least one item,
\* and only StatTrak items with min_price within the bounds
StatTrakPriceQueryAnswered ==
  \A i \in 1..Len(calls) :
    (/\ calls[i].op = "search"
     /\ \E name \in WithinBounds(detect_price_query(Lower(calls[i].query))) :
          IsStatTrakName(Lower(name)))
    => /\ calls[i].out # <<>>
       /\ \A k \in 1..Len(calls[i].out) :
            /\ IsStatTrakName(Lower(calls[i].out[k].item_name))
            /\ calls[i].out[k].item_name
                 \in WithinBounds(detect_price_query(Lower(calls[i].query)))

(***************************************************************************)
(* The limit of search                                                     *)
(***************************************************************************)
\* C27: no call search(query, limit) returns more than limit items
SearchRespectsLimit ==
  \A i \in 1..Len(calls) : calls[i].op = "search" => Len(calls[i].out) <= calls[i].limit

(***************************************************************************)
(* The rows of the embedding index                                         *)
(***************************************************************************)
\* C28: after a load that took the embeddings of the cache file, row i of the
\* index is the embedding of item_names[i], whatever the order of the names
\* in the cache file, so that semantic_search reports a hit at row i under
\* the name of the item that the row was computed from
IndexRowsAligned ==
  \A i \in 1..Len(calls) : (RanLoad(calls[i]) /\ SameNames(calls[i])) =>
    /\ Len(calls[i].after.index) = Len(calls[i].after.item_names)
    /\ \A r \in 1..Len(calls[i].after.index) :
         calls[i].after.index[r] = calls[i].after.item_names[r]

(***************************************************************************)
(* The fuzzy stage of hierarchical_search                                  *)
(***************************************************************************)
\* misspelled queries, which no exact, parsed, prefix or substring match answers
FuzzyQueries ==
  { "redlyn", "redlinx", "zlate", "safary", "minimul", "sandune", "dunes", "sanddune",
    "red line", "tesmed", "p-250", "reqline" }

\* a caller calls hierarchical_search(query, limit); the record keeps what the
\* stages before the fuzzy stage found (lines 860-864) and the candidates of
\* the fuzzy stage with their scores (line 868)
Hierarchical(query, limit) ==
  /\ Len(calls) < MaxPureCalls
  /\ calls' = Append(calls, [op |-> "hierarchical_search", query |-> query, limit |-> limit,
                             exact_matches |->
                               OrElse(exact_match(Strip(Lower(query))),
                                      match_by_parsed_components(Strip(Lower(query)))),
                             fuzzy_results |-> fuzzy_search(Strip(Lower(query)), limit),
                             out |-> hierarchical_search(query, limit)])
  /\ UNCHANGED <<catalog, from_hierarchical, loading, semantic>>

\* callers call hierarchical_search with misspelled queries
SpecFuzzy ==
  Init /\ [][\E query \in FuzzyQueries, limit \in Limits : Hierarchical(query, limit)]_vars

\* the place of the item name in the catalog
PlaceOf(name) == MinOf({n \in 1..Len(item_names) : item_names[n] = name})

\* C29: when hierarchical_search reaches its fuzzy stage, the candidates that
\* fuzzy_search scores at 75 or more (75 included) are returned and those it
\* scores below 75 are not, by descending score and, for equal scores, in
\* catalog order
FuzzyAcceptsFrom75 ==
  \A i \in 1..Len(calls) :
    (/\ calls[i].op = "hierarchical_search"
     /\ calls[i].exact_matches = <<>>
     /\ calls[i].fuzzy_results # <<>>)
    => /\ \A k \in 1..Len(calls[i].fuzzy_results) :
            (calls[i].fuzzy_results[k][2] >= 75 /\ ~Raises(calls[i].fuzzy_results[k][1]))
            <=> \E j \in 1..Len(calls[i].out) :
                  calls[i].out[j].item_name = calls[i].fuzzy_results[k][1]
       /\ \A j, k \in 1..Len(calls[i].out) : j < k =>
            \/ ScoreIn(calls[i].fuzzy_results, calls[i].out[j].item_name)
                 > ScoreIn(calls[i].fuzzy_results, calls[i].out[k].item_name)
            \/ /\ ScoreIn(calls[i].fuzzy_results, calls[i].out[j].item_name)
                    = ScoreIn(calls[i].fuzzy_results, calls[i].out[k].item_name)
               /\ PlaceOf(calls[i].out[j].item_name) < PlaceOf(calls[i].out[k].item_name)

(***************************************************************************)
(* The container rule of search_by_price_range                             *)
(***************************************************************************)
\* a snapshot with containers, weapon skins whose names hold a container
\* keyword, a sticker that names a weapon, and an item that holds neither
Containers ==
  << [market_hash_name |-> "AK-47 | Case Hardened (Field-Tested)", min_price |-> Num(9000),
      max_price |-> Num(9500), suggested_price |-> Num(9200), quantity |-> 2],
     [market_hash_name |-> "Sticker | Titan (Holo)", min_price |-> Num(2000),
      max_price |-> Num(2500), suggested_price |-> Num(2200), quantity |-> 5],
     [market_hash_name |-> "Operation Bravo Case", min_price |-> Num(50000),
      max_price |-> Num(60000), suggested_price |-> Num(55000), quantity |-> 8],
     [market_hash_name |-> "Five-SeveN | Case Hardened (Minimal Wear)", min_price |-> Num(4000),
      max_price |-> Num(4500), suggested_price |-> Num(4200), quantity |-> 1],
     [market_hash_name |-> "Music Kit | Skog, Metal", min_price |-> Num(3000),
      max_price |-> Num(3500), suggested_price |-> Num(3200), quantity |-> 4],
     [market_hash_name |-> "Hand Wraps | Leather (Field-Tested)", min_price |-> Num(8000),
      max_price |-> Num(8500), suggested_price |-> Num(8200), quantity |-> 1],
     [market_hash_name |-> "Sticker | AWP Country", min_price |-> Num(1500),
      max_price |-> Num(1800), suggested_price |-> Num(1600), quantity |-> 6],
     [market_hash_name |-> "Charm | Die-cast AK", min_price |-> Num(7000),
      max_price |-> Num(7500), suggested_price |-> Num(7200), quantity |-> 3] >>

\* the engine that get_skin_search_engine() constructed from that snapshot
InitContainers ==
  /\ load_data(Containers)
  /\ from_hierarchical = "unset"
  /\ loading = Idle
  /\ semantic = NoSemantic
  /\ calls = <<>>

\* direct calls of the price operations on that engine
SpecContainers == InitContainers /\ [][NextDirect]_vars

\* the name holds one of the container keywords / one of the weapon, knife
\* and glove keywords of lines 490-508
HoldsContainerKeyword(name) ==
  \E k \in 1..Len(container_keywords) : Contains(name, container_keywords[k])
HoldsWeaponKeyword(name) ==
  \E k \in 1..Len(price_range_weapons) : Contains(name, price_range_weapons[k])

\* C30: search_by_price_range returns no item whose name holds a container
\* keyword and no weapon keyword, and every item whose name holds a weapon
\* keyword and that satisfies the query (well-formed, of the weapon type,
\* within the bounds, up to the cap of 15) is returned
ContainerRule ==
  \A i \in 1..Len(calls) : calls[i].op = "search_by_price_range" =>
    /\ \A k \in 1..Len(calls[i].out) :
         HoldsContainerKeyword(calls[i].out[k].item_name)
         => HoldsWeaponKeyword(calls[i].out[k].item_name)
    /\ Cardinality(Satisfying(calls[i].weapon_type, calls[i].max_price, calls[i].min_price)) <= 15
       => \A name \in Satisfying(calls[i].weapon_type, calls[i].max_price, calls[i].min_price) :
            HoldsWeaponKeyword(name)
            => \E k \in 1..Len(calls[i].out) : calls[i].out[k].item_name = name

\* a price query that a sticker without a weapon keyword satisfies and that
\* returned the Case Hardened AK-47 and the sticker that names the AWP
ContainerRuleWitness ==
  \E i \in 1..Len(calls) :
    /\ calls[i].op = "search_by_price_range"
    /\ "Sticker | Titan (Holo)"
         \in Satisfying(calls[i].weapon_type, calls[i].max_price, calls[i].min_price)
    /\ \A k \in 1..Len(calls[i].out) : calls[i].out[k].item_name # "Sticker | Titan (Holo)"
    /\ \E k \in 1..Len(calls[i].out) :
         calls[i].out[k].item_name = "AK-47 | Case Hardened (Field-Tested)"
    /\ \E k \in 1..Len(calls[i].out) : calls[i].out[k].item_name = "Sticker | AWP Country"

====
